---- MODULE Spec2Model ----
(***************************************************************************)
(* Model of the Bezier surface fitter (backend/bezier_fitting.py) and of   *)
(* the /api/bezier-fit endpoint (backend/main.py) of airfolio.             *)
(*                                                                         *)
(* Floating-point numbers are modelled as fixed-point integers: the        *)
(* integer v stands for the real v / Scale, products and quotients are     *)
(* rounded down after each operation.  The SLSQP optimizer is a black box: *)
(* it is invoked with the objective and the initial guess and returns one  *)
(* parameter vector of the guess's length, the objective's value there and *)
(* a success flag, all three chosen nondeterministically.                  *)
(***************************************************************************)
EXTENDS Integers, Sequences, FiniteSets

\* ------------------------------------------------------------- bounds
\* Fixed-point resolution: Scale units make 1.0.
Scale == 12
\* Longest coordinate list of a request.
MaxPts == 2
\* Largest Bezier order of a request.
MaxOrder == 3
\* Points sampled along a curve (num_points; 200 in the source).
NumPoints == 3

\* ---------------------------------------------------------- constants
\* float('inf'); also the one non-finite coordinate value of the model.
Inf == 1000000
\* BezierFitRequest.order: Field(ge=3, ...)
ApiMinOrder == 3
\* BezierFitRequest.order: Field(..., le=10)
ApiMaxOrder == 10

IsFinite(v) == v # Inf

\* ------------------------------------------------------ fixed point
Abs(v) == IF v < 0 THEN -v ELSE v

Min2(a, b) == IF a <= b THEN a ELSE b

Max2(a, b) == IF a >= b THEN a ELSE b

\* a * b of two fixed-point numbers.
Mul(a, b) == (a * b) \div Scale

RECURSIVE Pow(_, _)
\* t ** k; t ** 0 is 1.0, also for t = 0.
Pow(t, k) == IF k = 0 THEN Scale ELSE Mul(t, Pow(t, k - 1))

RECURSIVE SqrtIter(_, _)
\* Heron's iteration downwards from r >= sqrt(z), z > 0.
SqrtIter(z, r) ==
    LET next == (r + z \div r) \div 2
    IN  IF next >= r THEN r ELSE SqrtIter(z, next)

\* np.sqrt of a sum of two raw squares (units of 1/Scale^2), rounded down: the
\* result is again in units of 1/Scale.
Sqrt(z) == IF z = 0 THEN 0 ELSE SqrtIter(z, z)

RECURSIVE SeqMax(_)
\* np.max over a non-empty one-dimensional array.
SeqMax(s) == IF Len(s) = 1 THEN s[1] ELSE Max2(s[1], SeqMax(Tail(s)))

\* coords[::-1]
Reverse(s) == [i \in 1..Len(s) |-> s[Len(s) + 1 - i]]

\* A fitter with as many control points as its order.
NewFitterOfOrderPoints(order) == [order |-> order, num_cp |-> order]

\* ------------------------------------------------- BezierFitter: curve
\* BezierFitter.__init__
NewFitter(order) == [order |-> order, num_cp |-> order + 1]

NoFitter == [order |-> 0, num_cp |-> 0]

RECURSIVE Comb(_, _)
\* scipy.special.comb(n, i), by Pascal's rule.
Comb(n, i) ==
    IF i = 0 \/ i = n THEN 1 ELSE Comb(n - 1, i - 1) + Comb(n - 1, i)

\* The Bernstein basis in its textbook form: comb(n, i) * (t ** i) * ((1 - t) ** (n - i))
BernsteinPolyTextbook(n, i, t) == Mul(Comb(n, i) * Pow(t, i), Pow(Scale - t, n - i))

\* _bernstein_poly: comb(n, i) * (t ** (n - i)) * ((1 - t) ** i)
BernsteinPoly(n, i, t) == Mul(Comb(n, i) * Pow(t, n - i), Pow(Scale - t, i))

\* np.linspace(0, 1, num_points)[k], k = 0 .. num_points - 1
Linspace(num_points, k) ==
    IF num_points = 1 THEN 0 ELSE (k * Scale) \div (num_points - 1)

\* b_val = self._bernstein_poly(n, i, t) for the NumPoints values of t, for
\* every n and i: the basis depends on nothing else, so it is tabulated once.
BVal ==
    [n \in 0..MaxOrder |->
        [i \in 0..n |->
            [k \in 1..NumPoints |-> BernsteinPoly(n, i, Linspace(NumPoints, k - 1))]]]

RECURSIVE CurveSum(_, _, _, _)
\* curve_points[k - 1, c] after the control points 0 .. i were added.
CurveSum(control_points, c, k, i) ==
    LET n == Len(control_points) - 1
        term == Mul(control_points[i + 1][c], BVal[n][i][k])
    IN  IF i = 0 THEN term ELSE CurveSum(control_points, c, k, i - 1) + term

\* generate_curve: num_points points <<x, y>> along the curve (num_points is
\* NumPoints at every call).
GenerateCurve(control_points, num_points) ==
    [k \in 1..num_points |->
        <<CurveSum(control_points, 1, k, Len(control_points) - 1),
          CurveSum(control_points, 2, k, Len(control_points) - 1)>>]

\* --------------------------------------------- BezierFitter: objective
\* np.clip(t, 0, 1)
Clip01(t) == IF t < 0 THEN 0 ELSE IF t > Scale THEN Scale ELSE t

\* np.sqrt((px - qx) ** 2 + (py - qy) ** 2)
EuclidDist(px, py, qx, qy) == Sqrt((px - qx) * (px - qx) + (py - qy) * (py - qy))

\* _point_line_segment_distance without the test of line 66.
PointLineSegmentDistanceUnguarded(px, py, x1, y1, x2, y2) ==
    LET dx == x2 - x1
        dy == y2 - y1
        len2 == dx * dx + dy * dy
        dot == (px - x1) * dx + (py - y1) * dy
        t == Clip01(IF len2 = 0 THEN 0 ELSE (dot * Scale) \div len2)
        closest_x == x1 + Mul(t, dx)
        closest_y == y1 + Mul(t, dy)
    IN  [dist |-> EuclidDist(px, py, closest_x, closest_y), zero_div |-> len2 = 0]

\* _point_line_segment_distance.  The quotient of line 69 is taken at double
\* width, so its divisor is 0 only for coinciding endpoints; zero_div records a
\* division by 0.
PointLineSegmentDistance(px, py, x1, y1, x2, y2) ==
    LET dx == x2 - x1
        dy == y2 - y1
        len2 == dx * dx + dy * dy
        dot == (px - x1) * dx + (py - y1) * dy
        t == Clip01(IF len2 = 0 THEN 0 ELSE (dot * Scale) \div len2)
        closest_x == x1 + Mul(t, dx)
        closest_y == y1 + Mul(t, dy)
    IN  IF dx = 0 /\ dy = 0
        THEN [dist |-> EuclidDist(px, py, x1, y1), zero_div |-> FALSE]
        ELSE [dist |-> EuclidDist(px, py, closest_x, closest_y), zero_div |-> len2 = 0]

\* (px - qx) ** 2 + (py - qy) ** 2, at double width.
SqDist(p, q) == (p[1] - q[1]) * (p[1] - q[1]) + (p[2] - q[2]) * (p[2] - q[2])

RECURSIVE NearestFrom(_, _, _, _)
\* The index in k .. Len(curve_points) nearest to point, unless best (at squared
\* distance bestd) is at least as near.
NearestFrom(curve_points, point, k, best) ==
    IF k > Len(curve_points) THEN best
    ELSE LET d == SqDist(point, curve_points[k])
         IN  NearestFrom(curve_points, point, k + 1,
                         IF d < best[2] THEN <<k, d>> ELSE best)

\* KDTree(curve_points).query(point): the distance to the nearest curve point and
\* its 0-based index (the lowest one among equally near points).
TreeQuery(curve_points, point) ==
    LET best == NearestFrom(curve_points, point, 2,
                            <<1, SqDist(point, curve_points[1])>>)
    IN  [dist_nearest |-> Sqrt(best[2]), idx |-> best[1] - 1]

\* The body of the loop of _calculate_error taking the distance to the nearest
\* sampled curve point for min_d, whatever the segment distances are.
PointErrorNearestOnly(curve_points, point) ==
    LET q == TreeQuery(curve_points, point)
    IN  [idx |-> q.idx, dist_nearest |-> q.dist_nearest, d1 |-> Inf, d2 |-> Inf,
         min_d |-> q.dist_nearest, zero_div |-> FALSE]

\* The body of the loop of _calculate_error for one data point: the segment
\* distances d1, d2 and the point's min_d.
PointError(curve_points, point) ==
    LET q == TreeQuery(curve_points, point)
        idx == q.idx
        c(k) == curve_points[k + 1]
        none == [dist |-> Inf, zero_div |-> FALSE]
        s1 == IF idx > 0
              THEN PointLineSegmentDistance(point[1], point[2],
                       c(idx - 1)[1], c(idx - 1)[2], c(idx)[1], c(idx)[2])
              ELSE none
        s2 == IF idx < Len(curve_points) - 1
              THEN PointLineSegmentDistance(point[1], point[2],
                       c(idx)[1], c(idx)[2], c(idx + 1)[1], c(idx + 1)[2])
              ELSE none
        m == Min2(s1.dist, s2.dist)
    IN  [idx |-> idx, dist_nearest |-> q.dist_nearest, d1 |-> s1.dist, d2 |-> s2.dist,
         min_d |-> IF m = Inf THEN q.dist_nearest ELSE m,
         zero_div |-> s1.zero_div \/ s2.zero_div]

\* _reconstruct_cps with the coordinates of P1 swapped: cps[1] = [params[0], 0].
ReconstructCpsSwappedP1(self, params, fixed_le, fixed_te) ==
    LET num_cp == self.num_cp
        zeros == [k \in 1..num_cp |-> <<0, 0>>]
        withLe == [zeros EXCEPT ![1] = fixed_le]
        withTe == [withLe EXCEPT ![num_cp] = fixed_te]
        withP1 == [withTe EXCEPT ![2] = <<params[1], 0>>]
        num_internal == num_cp - 3
    IN  IF num_internal > 0
        THEN [k \in 1..num_cp |->
                 IF k >= 3 /\ k <= num_cp - 1
                 THEN <<params[2 * (k - 3) + 2], params[2 * (k - 3) + 3]>>
                 ELSE withP1[k]]
        ELSE withP1

\* _reconstruct_cps: the assignments in the order of the source.
ReconstructCps(self, params, fixed_le, fixed_te) ==
    LET num_cp == self.num_cp
        zeros == [k \in 1..num_cp |-> <<0, 0>>]
        withLe == [zeros EXCEPT ![1] = fixed_le]
        withTe == [withLe EXCEPT ![num_cp] = fixed_te]
        withP1 == [withTe EXCEPT ![2] = <<0, params[1]>>]
        num_internal == num_cp - 3
    IN  IF num_internal > 0
        THEN [k \in 1..num_cp |->
                 IF k >= 3 /\ k <= num_cp - 1
                 THEN <<params[2 * (k - 3) + 2], params[2 * (k - 3) + 3]>>
                 ELSE withP1[k]]
        ELSE withP1

RECURSIVE ErrorSumOfResiduals(_, _, _)
\* The loop of _calculate_error summing the signed vertical residuals of the
\* nearest curve point against the data instead of the squared distances.
ErrorSumOfResiduals(curve_points, surface_data, k) ==
    IF k = 0 THEN 0
    ELSE LET e == PointError(curve_points, surface_data[k])
         IN  ErrorSumOfResiduals(curve_points, surface_data, k - 1)
                 + (curve_points[e.idx + 1][2] - surface_data[k][2])

RECURSIVE ErrorSum(_, _, _)
\* total_error_sq after the first k data points.
ErrorSum(curve_points, surface_data, k) ==
    IF k = 0 THEN 0
    ELSE LET e == PointError(curve_points, surface_data[k])
         IN  ErrorSum(curve_points, surface_data, k - 1) + Mul(e.min_d, e.min_d)

\* _calculate_error.  (cps and curve_points are bound over singleton sets so
\* that each is evaluated once.)
CalculateError(self, free_params, surface_data, fixed_le, fixed_te) ==
    CHOOSE total_error_sq \in
        {ErrorSum(curve_points, surface_data, Len(surface_data)) :
            curve_points \in
                {GenerateCurve(cps, NumPoints) :
                    cps \in {ReconstructCps(self, free_params, fixed_le, fixed_te)}}} :
        TRUE

\* _generate_initial_guess raises ValueError: np.zeros of a negative size.
InitialGuessRaises(self) == 1 + (self.num_cp - 3) * 2 < 0

\* _generate_initial_guess without the negation of max_y for the lower surface.
GenerateInitialGuessUnsigned(self, surface_data, chord_length, is_upper) ==
    LET abs_y == [k \in 1..Len(surface_data) |-> Abs(surface_data[k][2])]
        max_y == SeqMax(abs_y)
        num_free_params == 1 + (self.num_cp - 3) * 2
    IN  [j \in 1..num_free_params |->
            IF j = 1 THEN Mul(max_y, Scale \div 2)
            ELSE IF j % 2 = 0 THEN ((j \div 2 + 1) * chord_length) \div self.order
            ELSE max_y]

\* _generate_initial_guess
GenerateInitialGuess(self, surface_data, chord_length, is_upper) ==
    LET abs_y == [k \in 1..Len(surface_data) |-> Abs(surface_data[k][2])]
        max_y == IF is_upper THEN SeqMax(abs_y) ELSE -SeqMax(abs_y)
        num_free_params == 1 + (self.num_cp - 3) * 2
    IN  [j \in 1..num_free_params |->
            IF j = 1 THEN Mul(max_y, Scale \div 2)
            ELSE IF j % 2 = 0 THEN ((j \div 2 + 1) * chord_length) \div self.order
            ELSE max_y]

\* ------------------------------------------------- BezierFitter: fit
\* The parameter vectors the optimizer may stop at, for the initial guess x0:
\* x0 itself, all 0.0 and all 1.0.  Each has the length of x0.
Candidates(x0) ==
    <<x0, [j \in DOMAIN x0 |-> 0], [j \in DOMAIN x0 |-> Scale]>>

\* The indices of the candidates.
CandidatePicks == DOMAIN Candidates(<<>>)

\* What scipy.optimize.minimize does with the objective: the candidate it stops
\* at and whether it reports success.
Oracles == [pick : CandidatePicks, success : BOOLEAN]

\* Every coordinate of the samples is finite.
AllFinite(surface_data) ==
    \A k \in 1..Len(surface_data) :
        IsFinite(surface_data[k][1]) /\ IsFinite(surface_data[k][2])

NoSurfaceFit ==
    [raised |-> "", minimize_called |-> FALSE, pick |-> 0, x |-> <<>>,
     success |-> FALSE, cps |-> <<>>, sse |-> 0]

\* _fit_surface, lines 183-197, reporting the objective at the initial guess
\* instead of result.fun.
MinimizedFitSseOfGuess(self, surface_data, chord_length, is_upper, oracle) ==
    LET fixed_le == <<0, 0>>
        fixed_te == <<chord_length, 0>>
    IN  CHOOSE out \in
            {[raised |-> "", minimize_called |-> TRUE, pick |-> oracle.pick,
              x |-> Candidates(x0)[oracle.pick], success |-> oracle.success,
              cps |-> ReconstructCps(self, Candidates(x0)[oracle.pick],
                                     fixed_le, fixed_te),
              sse |-> CalculateError(self, x0, surface_data, fixed_le, fixed_te)] :
                x0 \in {GenerateInitialGuess(self, surface_data,
                                             chord_length, is_upper)}} :
            TRUE

\* _fit_surface, lines 183-197, once the guess is built and the data are
\* finite: minimize returns result.x and result.fun; result.success is not read.
\* (x0 and x are bound over singleton sets so that each is evaluated once.)
MinimizedFit(self, surface_data, chord_length, is_upper, oracle) ==
    LET fixed_le == <<0, 0>>
        fixed_te == <<chord_length, 0>>
    IN  CHOOSE out \in
            {[raised |-> "", minimize_called |-> TRUE, pick |-> oracle.pick,
              x |-> x, success |-> oracle.success,
              cps |-> ReconstructCps(self, x, fixed_le, fixed_te),
              sse |-> CalculateError(self, x, surface_data, fixed_le, fixed_te)] :
                x \in {Candidates(x0)[oracle.pick] :
                         x0 \in {GenerateInitialGuess(self, surface_data,
                                                      chord_length, is_upper)}}} :
            TRUE

\* _fit_surface raising when the optimizer reports no success.
FitSurfaceRaisingOnFailure(self, surface_data, chord_length, is_upper, oracle) ==
    IF InitialGuessRaises(self)
    THEN [NoSurfaceFit EXCEPT !.raised = "ValueError"]
    ELSE IF ~(AllFinite(surface_data) /\ IsFinite(chord_length))
    THEN [NoSurfaceFit EXCEPT !.raised = "ValueError", !.minimize_called = TRUE]
    ELSE IF ~oracle.success
    THEN [NoSurfaceFit EXCEPT !.raised = "RuntimeError", !.minimize_called = TRUE]
    ELSE MinimizedFit(self, surface_data, chord_length, is_upper, oracle)

\* _fit_surface.  The initial guess raises ValueError for num_cp < 3 (np.zeros
\* of a negative size); then minimize is called.  KDTree raises ValueError on
\* non-finite data at the first evaluation of the objective.
FitSurface(self, surface_data, chord_length, is_upper, oracle) ==
    IF InitialGuessRaises(self)
    THEN [NoSurfaceFit EXCEPT !.raised = "ValueError"]
    ELSE IF ~(AllFinite(surface_data) /\ IsFinite(chord_length))
    THEN [NoSurfaceFit EXCEPT !.raised = "ValueError", !.minimize_called = TRUE]
    ELSE MinimizedFit(self, surface_data, chord_length, is_upper, oracle)

\* np.column_stack([xs, ys]) raises ValueError for lists of different lengths.
ColumnStackRaises(xs, ys) == Len(xs) # Len(ys)

ColumnStack(xs, ys) == [k \in 1..Len(xs) |-> <<xs[k], ys[k]>>]

\* np.max(coords[:, 0]) raises ValueError for an array without rows.
MaxRaises(coords) == Len(coords) = 0

\* The chord taken from the upper surface alone.
ChordOfUpper(upper_arr, lower_arr) ==
    SeqMax([k \in 1..Len(upper_arr) |-> upper_arr[k][1]])

\* chord = max(np.max(upper_coords[:, 0]), np.max(lower_coords[:, 0]))
Chord(upper_arr, lower_arr) ==
    Max2(SeqMax([k \in 1..Len(upper_arr) |-> upper_arr[k][1]]),
         SeqMax([k \in 1..Len(lower_arr) |-> lower_arr[k][1]]))

\* The sort with the comparison turned round.
SortTeToLe(coords) ==
    IF coords[1][1] < coords[Len(coords)][1] THEN Reverse(coords) ELSE coords

\* if coords[0, 0] > coords[-1, 0]: coords = coords[::-1]
SortLeToTe(coords) ==
    IF coords[1][1] > coords[Len(coords)][1] THEN Reverse(coords) ELSE coords

\* fit, lines 225-230, raises before any surface is fitted.
FitPrepareRaises(req) ==
    \/ ColumnStackRaises(req.upper_x, req.upper_y)
    \/ ColumnStackRaises(req.lower_x, req.lower_y)
    \/ MaxRaises(ColumnStack(req.upper_x, req.upper_y))
    \/ MaxRaises(ColumnStack(req.lower_x, req.lower_y))

\* The dictionary of fit with the upper curve sampled from the lower polygon.
FitResultCurveOfLower(self, upper_fit, lower_fit) ==
    [upper_control_points |-> upper_fit.cps,
     lower_control_points |-> lower_fit.cps,
     upper_curve |-> GenerateCurve(lower_fit.cps, NumPoints),
     lower_curve |-> GenerateCurve(lower_fit.cps, NumPoints),
     upper_sse |-> upper_fit.sse,
     lower_sse |-> lower_fit.sse,
     order |-> self.order]

\* The dictionary fit returns.
FitResult(self, upper_fit, lower_fit) ==
    [upper_control_points |-> upper_fit.cps,
     lower_control_points |-> lower_fit.cps,
     upper_curve |-> GenerateCurve(upper_fit.cps, NumPoints),
     lower_curve |-> GenerateCurve(lower_fit.cps, NumPoints),
     upper_sse |-> upper_fit.sse,
     lower_sse |-> lower_fit.sse,
     order |-> self.order]

NoResult ==
    [upper_control_points |-> <<>>, lower_control_points |-> <<>>,
     upper_curve |-> <<>>, lower_curve |-> <<>>,
     upper_sse |-> 0, lower_sse |-> 0, order |-> 0]

\* ------------------------------------------------------------ requests
\* The sample points requests are built from: (0, 1) above the leading edge,
\* the trailing edge (1, 0) and a point with a non-finite y.
SamplePoints == {<<0, Scale>>, <<Scale, 0>>, <<Scale, Inf>>}

SeqsUpTo(S, n) == UNION {[1..k -> S] : k \in 0..n}

Xs(ps) == [k \in 1..Len(ps) |-> ps[k][1]]

Ys(ps) == [k \in 1..Len(ps) |-> ps[k][2]]

DropLast(s) == [k \in 1..(Len(s) - 1) |-> s[k]]

\* The coordinate lists of one surface: x and y of equal length, or y one short.
Surfaces ==
    {[x |-> Xs(ps), y |-> Ys(ps)] : ps \in SeqsUpTo(SamplePoints, MaxPts)}
    \cup {[x |-> Xs(ps), y |-> DropLast(Ys(ps))] :
             ps \in SeqsUpTo(SamplePoints, MaxPts) \ {<<>>}}

\* A BezierFitRequest (order within the Field's bounds) or a direct call of
\* BezierFitter(order).fit.
Requests ==
    {[via |-> via, order |-> order, upper_x |-> u.x, upper_y |-> u.y,
      lower_x |-> l.x, lower_y |-> l.y] :
        via \in {"api", "lib"}, order \in 1..MaxOrder, u \in Surfaces, l \in Surfaces}

NoRequest ==
    [via |-> "", order |-> 0, upper_x |-> <<>>, upper_y |-> <<>>,
     lower_x |-> <<>>, lower_y |-> <<>>]

\* ------------------------------------------------- endpoint responses
\* arr[:, j].tolist(): column j of an N x 2 array as a list.
Column(arr, j) == [k \in 1..Len(arr) |-> arr[k][j]]

\* bezier_fit, lines 995-1015: the BezierFitResponse built from fit's dictionary.
BezierFitResponse(res) ==
    [upper_control_points |-> [x |-> Column(res.upper_control_points, 1),
                               y |-> Column(res.upper_control_points, 2)],
     lower_control_points |-> [x |-> Column(res.lower_control_points, 1),
                               y |-> Column(res.lower_control_points, 2)],
     upper_curve |-> [x |-> Column(res.upper_curve, 1),
                      y |-> Column(res.upper_curve, 2)],
     lower_curve |-> [x |-> Column(res.lower_curve, 1),
                      y |-> Column(res.lower_curve, 2)],
     order |-> res.order,
     upper_sse |-> res.upper_sse,
     lower_sse |-> res.lower_sse]

\* No response body yet, or an error response (its status is http_status).
NoResponse == [detail |-> ""]

\* ----------------------------------------------------- analyze_airfoil
\* np.arange(start, end + step, step) for a positive step.
RECURSIVE Arange(_, _, _)
Arange(start, stop, step) ==
    IF start >= stop THEN <<>> ELSE <<start>> \o Arange(start + step, stop, step)

\* analyze_airfoil, lines 57-62: the ValueErrors raised by its own checks.
AnalyzeAirfoilRejects(upper_x_coords, upper_y_coords, lower_x_coords, lower_y_coords) ==
    \/ Len(upper_x_coords) # Len(upper_y_coords)
    \/ Len(lower_x_coords) # Len(lower_y_coords)
    \/ Len(upper_x_coords) < 2 \/ Len(lower_x_coords) < 2

\* analyze_airfoil, lines 65-106: the coordinate array given to asb.Airfoil (upper
\* surface TE -> LE, then lower surface LE -> TE, a shared leading edge once).
AirfoilCoordinates(upper_x_coords, upper_y_coords, lower_x_coords, lower_y_coords) ==
    LET u == ColumnStack(upper_x_coords, upper_y_coords)
        l == ColumnStack(lower_x_coords, lower_y_coords)
        upper_arr == IF u[1][1] < u[Len(u)][1] THEN Reverse(u) ELSE u
        lower_arr == IF l[1][1] > l[Len(l)][1] THEN Reverse(l) ELSE l
    IN  IF upper_arr[Len(upper_arr)] = lower_arr[1]
        THEN DropLast(upper_arr) \o lower_arr
        ELSE upper_arr \o lower_arr

\* analyze_airfoil.  NeuralFoil is a function of the coordinates, the flow
\* conditions and the model size: its outputs stand here for their arguments.
\* neuralfoil_ok tells whether asb.Airfoil and NeuralFoil complete; every
\* exception leaves analyze_airfoil as a ValueError (lines 164-165).
AnalyzeAirfoil(upper_x_coords, upper_y_coords, lower_x_coords, lower_y_coords, reynolds_number, mach_number, alpha_range, n_crit, model_size, neuralfoil_ok) ==
    IF \/ AnalyzeAirfoilRejects(upper_x_coords, upper_y_coords,
                                lower_x_coords, lower_y_coords)
       \/ ~neuralfoil_ok
    THEN [raised |-> "ValueError", results |-> <<>>]
    ELSE [raised |-> "",
          results |->
            [alpha |-> Arange(alpha_range[1], alpha_range[2] + alpha_range[3],
                              alpha_range[3]),
             aero |-> [coordinates |-> AirfoilCoordinates(upper_x_coords,
                           upper_y_coords, lower_x_coords, lower_y_coords),
                       Re |-> reynolds_number, mach |-> mach_number,
                       n_crit |-> n_crit, model_size |-> model_size]]]

\* ------------------------------------------------- transient requests
\* The coordinate lists of the transient requests: one or two values.
TransientXs == {<<Scale>>, <<Scale, 0>>}

TransientYs == {<<0>>, <<0, 0>>}

\* The alpha ranges (start, end, step) of the requests: a valid one, one with
\* start >= end and one with step <= 0.
AlphaRanges == {<<0, 2, 1>>, <<2, 0, 1>>, <<0, 2, 0>>}

\* A TransientAnalysisRequest, as posted to /api/analyze-transient or built by
\* analyze_cst (lines 921-933) and analyze_naca (lines 943-955).
TransientRequests ==
    {[endpoint |-> e[1], upper_x |-> ux, upper_y |-> uy, lower_x |-> lx,
      lower_y |-> ly, reynolds |-> 1, mach |-> 0,
      alpha_start |-> a[1], alpha_end |-> a[2], alpha_step |-> a[3],
      n_crit |-> 9, airfoil_name |-> e[2]] :
        ux \in TransientXs, uy \in TransientYs, lx \in TransientXs,
        ly \in TransientYs, a \in AlphaRanges,
        e \in {<<"/api/analyze-transient", "Custom Airfoil">>,
                <<"/api/analyze-cst", "CST Airfoil">>,
                <<"/api/analyze-naca", "NACA 2412">>}}

NoAnalysisRequest == [endpoint |-> ""]

\* The rows of table airfoils.
StoredAirfoils ==
    {[id |-> "a1", name |-> "NACA 0012",
      upper_x_coordinates |-> <<Scale, 0>>, upper_y_coordinates |-> <<0, 0>>,
      lower_x_coordinates |-> <<0, Scale>>, lower_y_coordinates |-> <<0, 0>>],
     [id |-> "a2", name |-> "Clark Y",
      upper_x_coordinates |-> <<Scale, 0>>, upper_y_coordinates |-> <<0, 1>>,
      lower_x_coordinates |-> <<0, Scale>>, lower_y_coordinates |-> <<0, 0>>]}

\* --------------------------------------------------------------- state
VARIABLES
    pc,               \* where the current call stands
    request,          \* the request being served
    fitter,           \* the BezierFitter constructed for it
    chord,            \* fit's chord
    upper_coords,     \* fit's upper_coords, after the LE -> TE sort
    lower_coords,     \* fit's lower_coords, after the LE -> TE sort
    upper,            \* _fit_surface's outcome for the upper surface
    lower,            \* _fit_surface's outcome for the lower surface
    result,           \* the dictionary fit returned
    raised,           \* the exception fit raised ("" for none)
    http_status,      \* the endpoint's answer (0 for none)
    reused,           \* the fitter has served an earlier call of fit
    response,         \* the body of the endpoint's answer
    analysis_request, \* the analysis request being served
    analyze_airfoil_calls, \* the calls of analyze_airfoil made for it
    db_errors,             \* the exceptions caught while serving it
    performance_cache,     \* the rows of table performance_cache, as inserted
    airfoils,              \* the rows of table airfoils
    supabase               \* the supabase client is configured

\* What the analysis endpoints work on.
serviceVars ==
    <<analysis_request, analyze_airfoil_calls, db_errors, performance_cache, airfoils, supabase>>

vars ==
    <<pc, request, fitter, chord, upper_coords, lower_coords, upper, lower,
      result, raised, http_status, reused, response, serviceVars>>

Init ==
    /\ pc = "idle"
    /\ request = NoRequest
    /\ fitter = NoFitter
    /\ chord = 0
    /\ upper_coords = <<>>
    /\ lower_coords = <<>>
    /\ upper = NoSurfaceFit
    /\ lower = NoSurfaceFit
    /\ result = NoResult
    /\ raised = ""
    /\ http_status = 0
    /\ reused = FALSE
    /\ response = NoResponse
    /\ analysis_request = NoAnalysisRequest
    /\ analyze_airfoil_calls = <<>>
    /\ db_errors = {}
    /\ performance_cache = <<>>
    /\ airfoils = StoredAirfoils
    /\ supabase = TRUE

\* A client posts to /api/bezier-fit: the framework has validated the body
\* against BezierFitRequest.
PostBezierFit ==
    /\ pc = "idle"
    /\ \E req \in Requests :
        /\ req.via = "api"
        /\ req.order >= ApiMinOrder /\ req.order <= ApiMaxOrder
        /\ request' = req
    /\ pc' = "api_validate"
    /\ UNCHANGED <<fitter, chord, upper_coords, lower_coords, upper, lower,
                   result, raised, http_status>>
    /\ UNCHANGED <<reused, response, serviceVars>>

\* The checks of bezier_fit with only the upper surface's length checked
\* against 2.
ValidationFailsUpperOnly(req) ==
    \/ Len(req.upper_x) # Len(req.upper_y)
    \/ Len(req.lower_x) # Len(req.lower_y)
    \/ Len(req.upper_x) < 2

\* bezier_fit, lines 966-980: the conditions under which HTTPException(400) is
\* raised.
ValidationFails(req) ==
    \/ Len(req.upper_x) # Len(req.upper_y)
    \/ Len(req.lower_x) # Len(req.lower_y)
    \/ Len(req.upper_x) < 2 \/ Len(req.lower_x) < 2

\* bezier_fit, lines 965-983: the three checks, then BezierFitter(order=...).
BezierFitValidate ==
    /\ pc = "api_validate"
    /\ IF ValidationFails(request)
       THEN /\ http_status' = 400
            /\ pc' = "done"
            /\ UNCHANGED fitter
       ELSE /\ fitter' = NewFitter(request.order)
            /\ pc' = "fit"
            /\ UNCHANGED http_status
    /\ UNCHANGED <<request, chord, upper_coords, lower_coords, upper, lower,
                   result, raised>>
    /\ UNCHANGED <<reused, response, serviceVars>>

\* A caller constructs BezierFitter(order) and calls fit itself.
CallFit ==
    /\ pc = "idle"
    /\ \E req \in Requests :
        /\ req.via = "lib"
        /\ request' = req
        /\ fitter' = NewFitter(req.order)
    /\ pc' = "fit"
    /\ UNCHANGED <<chord, upper_coords, lower_coords, upper, lower,
                   result, raised, http_status>>
    /\ UNCHANGED <<reused, response, serviceVars>>

\* Where an exception raised in fit goes: to the endpoint's handler or to the
\* caller.
AfterRaise == IF request.via = "api" THEN "api_except" ELSE "done"

\* fit, lines 225-238.
FitPrepare ==
    /\ pc = "fit"
    /\ IF FitPrepareRaises(request)
       THEN /\ raised' = "ValueError"
            /\ pc' = AfterRaise
            /\ UNCHANGED <<chord, upper_coords, lower_coords>>
       ELSE LET u == ColumnStack(request.upper_x, request.upper_y)
                l == ColumnStack(request.lower_x, request.lower_y)
            IN  /\ chord' = Chord(u, l)
                /\ upper_coords' = SortLeToTe(u)
                /\ lower_coords' = SortLeToTe(l)
                /\ pc' = "fit_upper"
                /\ UNCHANGED raised
    /\ UNCHANGED <<request, fitter, upper, lower, result, http_status>>
    /\ UNCHANGED <<reused, response, serviceVars>>

\* fit, line 241.
FitUpper ==
    /\ pc = "fit_upper"
    /\ \E oracle \in Oracles :
        \E out \in {FitSurface(fitter, upper_coords, chord, TRUE, oracle)} :
            /\ upper' = out
            /\ raised' = out.raised
            /\ pc' = IF out.raised # "" THEN AfterRaise ELSE "fit_lower"
    /\ UNCHANGED <<request, fitter, chord, upper_coords, lower_coords, lower,
                   result, http_status>>
    /\ UNCHANGED <<reused, response, serviceVars>>

\* fit fitting the lower surface and leaving the fitter with its order raised.
FitLowerRaisingOrder ==
    /\ pc = "fit_lower"
    /\ \E oracle \in Oracles :
        \E out \in {FitSurface(fitter, lower_coords, chord, FALSE, oracle)} :
            /\ lower' = out
            /\ raised' = out.raised
            /\ IF out.raised # ""
               THEN /\ pc' = AfterRaise
                    /\ UNCHANGED result
               ELSE /\ pc' = IF request.via = "api" THEN "api_respond" ELSE "done"
                    /\ result' = FitResult(fitter, upper, out)
    /\ fitter' = NewFitter(fitter.order + 1)
    /\ UNCHANGED <<request, chord, upper_coords, lower_coords, upper,
                   http_status, reused, response, serviceVars>>

\* fit, lines 242-256: the lower surface is fitted, the two curves are sampled
\* and the dictionary is returned.
FitLower ==
    /\ pc = "fit_lower"
    /\ \E oracle \in Oracles :
        \E out \in {FitSurface(fitter, lower_coords, chord, FALSE, oracle)} :
            /\ lower' = out
            /\ raised' = out.raised
            /\ IF out.raised # ""
               THEN /\ pc' = AfterRaise
                    /\ UNCHANGED result
               ELSE /\ pc' = IF request.via = "api" THEN "api_respond" ELSE "done"
                    /\ result' = FitResult(fitter, upper, out)
    /\ UNCHANGED <<request, fitter, chord, upper_coords, lower_coords, upper,
                   http_status>>
    /\ UNCHANGED <<reused, response, serviceVars>>

\* bezier_fit, lines 994-1015: the response is built from the dictionary.
BezierFitRespond ==
    /\ pc = "api_respond"
    /\ http_status' = 200
    /\ response' = BezierFitResponse(result)
    /\ pc' = "done"
    /\ UNCHANGED <<request, fitter, chord, upper_coords, lower_coords, upper, lower,
                   result, raised>>
    /\ UNCHANGED <<reused, serviceVars>>

\* bezier_fit, lines 1017-1023: except Exception -> HTTPException(500).
BezierFitExcept ==
    /\ pc = "api_except"
    /\ http_status' = 500
    /\ pc' = "done"
    /\ UNCHANGED <<request, fitter, chord, upper_coords, lower_coords, upper, lower,
                   result, raised>>
    /\ UNCHANGED <<reused, response, serviceVars>>

\* The caller calls fit again on the fitter it kept.
CallFitAgain ==
    /\ pc = "kept"
    /\ \E req \in Requests :
        /\ req.via = "lib"
        /\ req.order = request.order
        /\ request' = req
    /\ pc' = "fit"
    /\ UNCHANGED <<fitter, chord, upper_coords, lower_coords, upper, lower, result,
                   raised, http_status, reused, response, serviceVars>>

\* fit has returned or raised and the caller keeps the fitter it constructed for
\* another call: fit's locals are gone, the fitter is the one the call used.
KeepFitter ==
    /\ pc = "done" /\ request.via = "lib"
    /\ request' = [NoRequest EXCEPT !.via = "lib", !.order = request.order]
    /\ pc' = "kept"
    /\ reused' = TRUE
    /\ chord' = 0
    /\ upper_coords' = <<>>
    /\ lower_coords' = <<>>
    /\ upper' = NoSurfaceFit
    /\ lower' = NoSurfaceFit
    /\ result' = NoResult
    /\ raised' = ""
    /\ UNCHANGED <<fitter, http_status, response, serviceVars>>

\* A client posts to /api/analyze-transient.
PostAnalyzeTransient ==
    /\ pc = "idle"
    /\ \E req \in TransientRequests :
        /\ req.endpoint = "/api/analyze-transient"
        /\ analysis_request' = req
    /\ pc' = "analyze_transient"
    /\ UNCHANGED <<request, fitter, chord, upper_coords, lower_coords, upper, lower,
                   result, raised, http_status, reused, response,
                   analyze_airfoil_calls, db_errors, performance_cache, airfoils, supabase>>

\* analyze_cst, lines 921-934: the TransientAnalysisRequest built from the
\* CSTAnalysisRequest, named "CST Airfoil", is handed to analyze_transient.
PostAnalyzeCst ==
    /\ pc = "idle"
    /\ \E req \in TransientRequests :
        /\ req.endpoint = "/api/analyze-cst"
        /\ analysis_request' = req
    /\ pc' = "analyze_transient"
    /\ UNCHANGED <<request, fitter, chord, upper_coords, lower_coords, upper, lower,
                   result, raised, http_status, reused, response,
                   analyze_airfoil_calls, db_errors, performance_cache, airfoils, supabase>>

\* analyze_naca, lines 943-956: the TransientAnalysisRequest built from the
\* NACAAnalysisRequest, named by its designation, is handed to analyze_transient.
PostAnalyzeNaca ==
    /\ pc = "idle"
    /\ \E req \in TransientRequests :
        /\ req.endpoint = "/api/analyze-naca"
        /\ analysis_request' = req
    /\ pc' = "analyze_transient"
    /\ UNCHANGED <<request, fitter, chord, upper_coords, lower_coords, upper, lower,
                   result, raised, http_status, reused, response,
                   analyze_airfoil_calls, db_errors, performance_cache, airfoils, supabase>>

\* analyze_transient, lines 857-883: the conditions under which
\* HTTPException(400) is raised before the analysis.
TransientValidationFails(req) ==
    \/ Len(req.upper_x) # Len(req.upper_y)
    \/ Len(req.lower_x) # Len(req.lower_y)
    \/ Len(req.upper_x) < 2 \/ Len(req.lower_x) < 2
    \/ req.alpha_start >= req.alpha_end
    \/ req.alpha_step <= 0

\* The call of analyze_airfoil as the handlers record it.
AnalyzeAirfoilCall(airfoil_name, model_size) ==
    [airfoil_name |-> airfoil_name, model_size |-> model_size]

\* analyze_transient storing the results it returns in performance_cache.
AnalyzeTransientCaching ==
    /\ pc = "analyze_transient"
    /\ IF TransientValidationFails(analysis_request)
       THEN /\ http_status' = 400
            /\ UNCHANGED <<response, analyze_airfoil_calls>>
       ELSE \E neuralfoil_ok \in BOOLEAN :
            \E out \in {AnalyzeAirfoil(analysis_request.upper_x, analysis_request.upper_y,
                            analysis_request.lower_x, analysis_request.lower_y,
                            analysis_request.reynolds, analysis_request.mach,
                            <<analysis_request.alpha_start, analysis_request.alpha_end,
                              analysis_request.alpha_step>>,
                            analysis_request.n_crit, "xlarge", neuralfoil_ok)} :
                /\ analyze_airfoil_calls' =
                       Append(analyze_airfoil_calls,
                              AnalyzeAirfoilCall(analysis_request.airfoil_name, "xlarge"))
                /\ IF out.raised = "ValueError"
                   THEN /\ http_status' = 400
                        /\ UNCHANGED response
                   ELSE /\ http_status' = 200
                        /\ response' = out.results
    /\ performance_cache' =
          IF http_status' = 200
          THEN Append(performance_cache,
                      [airfoil_id |-> analysis_request.airfoil_name,
                       cond_hash |-> "", outputs |-> response'])
          ELSE performance_cache
    /\ pc' = "done"
    /\ UNCHANGED <<request, fitter, chord, upper_coords, lower_coords, upper, lower,
                   result, raised, reused, analysis_request, db_errors, airfoils, supabase>>

\* analyze_transient, lines 855-912: the checks, analyze_airfoil with
\* model_size "xlarge", and the handlers (ValueError -> 400).
AnalyzeTransient ==
    /\ pc = "analyze_transient"
    /\ IF TransientValidationFails(analysis_request)
       THEN /\ http_status' = 400
            /\ UNCHANGED <<response, analyze_airfoil_calls>>
       ELSE \E neuralfoil_ok \in BOOLEAN :
            \E out \in {AnalyzeAirfoil(analysis_request.upper_x, analysis_request.upper_y,
                            analysis_request.lower_x, analysis_request.lower_y,
                            analysis_request.reynolds, analysis_request.mach,
                            <<analysis_request.alpha_start, analysis_request.alpha_end,
                              analysis_request.alpha_step>>,
                            analysis_request.n_crit, "xlarge", neuralfoil_ok)} :
                /\ analyze_airfoil_calls' =
                       Append(analyze_airfoil_calls,
                              AnalyzeAirfoilCall(analysis_request.airfoil_name, "xlarge"))
                /\ IF out.raised = "ValueError"
                   THEN /\ http_status' = 400
                        /\ UNCHANGED response
                   ELSE /\ http_status' = 200
                        /\ response' = out.results
    /\ pc' = "done"
    /\ UNCHANGED <<request, fitter, chord, upper_coords, lower_coords, upper, lower,
                   result, raised, reused, analysis_request, db_errors,
                   performance_cache, airfoils, supabase>>

\* The server has answered and takes the next request: nothing of the request
\* served is kept; the tables are.
NextRequest ==
    /\ pc = "done" /\ request.via # "lib"
    /\ pc' = "idle"
    /\ request' = NoRequest
    /\ fitter' = NoFitter
    /\ chord' = 0
    /\ upper_coords' = <<>>
    /\ lower_coords' = <<>>
    /\ upper' = NoSurfaceFit
    /\ lower' = NoSurfaceFit
    /\ result' = NoResult
    /\ raised' = ""
    /\ http_status' = 0
    /\ reused' = FALSE
    /\ response' = NoResponse
    /\ analysis_request' = NoAnalysisRequest
    /\ analyze_airfoil_calls' = <<>>
    /\ db_errors' = {}
    /\ UNCHANGED <<performance_cache, airfoils, supabase>>

Next ==
    \/ PostBezierFit
    \/ BezierFitValidate
    \/ CallFit
    \/ CallFitAgain
    \/ KeepFitter
    \/ FitPrepare
    \/ FitUpper
    \/ FitLower
    \/ BezierFitRespond
    \/ BezierFitExcept
    \/ PostAnalyzeTransient
    \/ PostAnalyzeCst
    \/ PostAnalyzeNaca
    \/ AnalyzeTransient
    \/ NextRequest

Spec == Init /\ [][Next]_vars

\* -------------------------------------------------------- /api/analyze
\* The most rows table performance_cache is let grow to.
MaxRows == 3

\* Python's None, for an optional field left out.
None == 999999

\* The AnalysisConditions of the requests.
AnalysisConditions ==
    {[Re |-> re, Mach |-> 0, alpha_range |-> <<0, 2, 1>>, n_crit |-> None,
      control_surface_fraction |-> 0, control_surface_deflection |-> 0] :
        re \in {1, 2}}

\* The airfoil ids of the requests: those of the two stored airfoils and one
\* that no row has.
AirfoilIds == {"a1", "a2", "a3"}

\* An AnalysisRequest with 1 or 2 airfoil ids (min_items=1).
AnalysisRequests ==
    {[endpoint |-> "/api/analyze", airfoil_ids |-> ids, conditions |-> c] :
        ids \in [1..1 -> AirfoilIds] \cup [1..2 -> AirfoilIds],
        c \in AnalysisConditions}

\* conditions.model_dump(exclude_none=True, mode='json')
ModelDumpExcludeNone(conditions) ==
    IF conditions.n_crit = None
    THEN [Re |-> conditions.Re, Mach |-> conditions.Mach,
          alpha_range |-> conditions.alpha_range,
          control_surface_fraction |-> conditions.control_surface_fraction,
          control_surface_deflection |-> conditions.control_surface_deflection]
    ELSE conditions

\* generate_condition_hash: the SHA256 digest of the JSON text of hash_data,
\* which stands here for hash_data itself (no two texts share a digest).
GenerateConditionHash(conditions, airfoil_id, flap_fraction, deflection) ==
    LET conditions_dict == ModelDumpExcludeNone(conditions)
    IN  IF flap_fraction = None /\ deflection = None
        THEN [conditions |-> conditions_dict, airfoil_id |-> airfoil_id]
        ELSE IF deflection = None
        THEN [conditions |-> conditions_dict, airfoil_id |-> airfoil_id,
              flap_fraction |-> flap_fraction]
        ELSE IF flap_fraction = None
        THEN [conditions |-> conditions_dict, airfoil_id |-> airfoil_id,
              deflection |-> deflection]
        ELSE [conditions |-> conditions_dict, airfoil_id |-> airfoil_id,
              flap_fraction |-> flap_fraction, deflection |-> deflection]

\* table('performance_cache').select('*').eq('airfoil_id', ...).eq('cond_hash',
\* ...): the rows with that key, in the order of the table.
CacheRowsFor(cache_rows, airfoil_id, cond_hash) ==
    SelectSeq(cache_rows,
              LAMBDA row : row.airfoil_id = airfoil_id /\ row.cond_hash = cond_hash)

\* request.conditions.n_crit if it is not None, else 9.0
NCritOf(conditions) == IF conditions.n_crit # None THEN conditions.n_crit ELSE 9

\* What the supabase client and NeuralFoil do during one request: the cache
\* select raises, the airfoils select raises, .single() on no row yields data
\* None rather than raising, NeuralFoil completes, the cache insert raises.
AnalyzeOracles ==
    [lookup_fails : BOOLEAN, fetch_fails : BOOLEAN, no_rows_is_none : BOOLEAN,
     neuralfoil_ok : BOOLEAN, insert_fails : BOOLEAN]

\* The outcome of the body of analyze when an exception leaves it:
\* raised_status is the status of the HTTPException raised.
AnalyzeRaised(raised_status, calls, errors, cache_rows) ==
    [raised_status |-> raised_status, body |-> NoResponse, calls |-> calls,
     errors |-> errors, cache |-> cache_rows]

\* The outcome of the body of analyze when it returns an AnalysisResponse.
AnalyzeReturned(cached, results, calls, errors, cache_rows) ==
    [raised_status |-> 0,
     body |-> [job_id |-> None, cached |-> cached, results |-> results],
     calls |-> calls, errors |-> errors, cache |-> cache_rows]

\* analyze, lines 250-336: the single-airfoil path.  .single().execute() raises
\* unless exactly one row matches.
AnalyzeSingle(req, cache_rows, airfoil_rows, o) ==
    LET airfoil_id == req.airfoil_ids[1]
        cond_hash == GenerateConditionHash(req.conditions, airfoil_id, None, None)
        hits == CacheRowsFor(cache_rows, airfoil_id, cond_hash)
        found == {a \in airfoil_rows : a.id = airfoil_id}
        lookup_errors ==
            IF o.lookup_fails THEN {"cache select raised"}
            ELSE IF Len(hits) # 1 THEN {"cache select: not a single row"}
            ELSE {}
    IN  IF lookup_errors = {}
        THEN AnalyzeReturned(TRUE, hits[1].outputs, <<>>, {}, cache_rows)
        ELSE IF o.fetch_fails \/ (found = {} /\ ~o.no_rows_is_none)
        THEN AnalyzeRaised(500, <<>>, lookup_errors \cup {"airfoils select raised"},
                           cache_rows)
        ELSE IF found = {}
        THEN AnalyzeRaised(404, <<>>, lookup_errors, cache_rows)
        ELSE LET airfoil_data == CHOOSE a \in found : TRUE
                 call == AnalyzeAirfoilCall(airfoil_data.name, "xlarge")
                 out == AnalyzeAirfoil(airfoil_data.upper_x_coordinates,
                            airfoil_data.upper_y_coordinates,
                            airfoil_data.lower_x_coordinates,
                            airfoil_data.lower_y_coordinates,
                            req.conditions.Re, req.conditions.Mach,
                            req.conditions.alpha_range, NCritOf(req.conditions),
                            "xlarge", o.neuralfoil_ok)
             IN  IF out.raised # ""
                 THEN AnalyzeRaised(500, <<call>>,
                          lookup_errors \cup {"analyze_airfoil raised"}, cache_rows)
                 ELSE IF o.insert_fails
                 THEN AnalyzeReturned(FALSE, out.results, <<call>>,
                          lookup_errors \cup {"cache insert raised"}, cache_rows)
                 ELSE AnalyzeReturned(FALSE, out.results, <<call>>, lookup_errors,
                          Append(cache_rows,
                                 [airfoil_id |-> airfoil_id, cond_hash |-> cond_hash,
                                  inputs |-> req.conditions,
                                  outputs |-> out.results]))

\* dict[key] = value
Put(dict, key, value) ==
    [k \in DOMAIN dict \cup {key} |-> IF k = key THEN value ELSE dict[k]]

RECURSIVE CacheLookup(_, _, _, _)
\* analyze, lines 382-403: cache_lookup built from the rows k.. of the batch
\* select; a later row of an airfoil replaces an earlier one.
CacheLookup(req, cache_rows, k, cache_lookup) ==
    IF k > Len(cache_rows) THEN cache_lookup
    ELSE LET cached_item == cache_rows[k]
             wanted ==
                 /\ \E j \in DOMAIN req.airfoil_ids :
                       req.airfoil_ids[j] = cached_item.airfoil_id
                 /\ cached_item.cond_hash =
                       GenerateConditionHash(req.conditions,
                                             cached_item.airfoil_id, None, None)
         IN  CacheLookup(req, cache_rows, k + 1,
                 IF wanted
                 THEN Put(cache_lookup, cached_item.airfoil_id, cached_item.outputs)
                 ELSE cache_lookup)

RECURSIVE AnalyzeEach(_, _, _, _, _, _)
\* analyze, lines 413-454: the loop over request.airfoil_ids from index k on;
\* acc holds comparison_results, the calls made, the errors swallowed and the
\* table so far.  An exception of analyze_airfoil ends the loop.
AnalyzeEach(req, k, airfoil_rows, cache_lookup, o, acc) ==
    IF k > Len(req.airfoil_ids) THEN acc
    ELSE LET airfoil_id == req.airfoil_ids[k]
             airfoil_data == CHOOSE a \in airfoil_rows : a.id = airfoil_id
             cond_hash ==
                 GenerateConditionHash(req.conditions, airfoil_id, None, None)
             call == AnalyzeAirfoilCall(airfoil_data.name, "xsmall")
             out == AnalyzeAirfoil(airfoil_data.upper_x_coordinates,
                        airfoil_data.upper_y_coordinates,
                        airfoil_data.lower_x_coordinates,
                        airfoil_data.lower_y_coordinates,
                        req.conditions.Re, req.conditions.Mach,
                        req.conditions.alpha_range, NCritOf(req.conditions),
                        "xsmall", o.neuralfoil_ok)
         IN  IF airfoil_id \in DOMAIN cache_lookup
             THEN AnalyzeEach(req, k + 1, airfoil_rows, cache_lookup, o,
                      [acc EXCEPT !.results =
                          Put(@, airfoil_data.name, cache_lookup[airfoil_id])])
             ELSE IF out.raised # ""
             THEN [acc EXCEPT !.raised_status = 500, !.calls = Append(@, call),
                              !.errors = @ \cup {"analyze_airfoil raised"}]
             ELSE AnalyzeEach(req, k + 1, airfoil_rows, cache_lookup, o,
                      [acc EXCEPT
                          !.results = Put(@, airfoil_data.name, out.results),
                          !.calls = Append(@, call),
                          !.errors = IF o.insert_fails
                                     THEN @ \cup {"cache insert raised"} ELSE @,
                          !.cache = IF o.insert_fails THEN @
                                    ELSE Append(@, [airfoil_id |-> airfoil_id,
                                                    cond_hash |-> cond_hash,
                                                    inputs |-> req.conditions,
                                                    outputs |-> out.results])])

\* analyze, lines 338-469: the multi-airfoil path.
AnalyzeMulti(req, cache_rows, airfoil_rows, o) ==
    LET requested_ids == {req.airfoil_ids[j] : j \in DOMAIN req.airfoil_ids}
        found == {a \in airfoil_rows : a.id \in requested_ids}
        missing_ids == requested_ids \ {a.id : a \in found}
        lookup_errors == IF o.lookup_fails THEN {"cache select raised"} ELSE {}
        cache_lookup == IF o.lookup_fails THEN <<>>
                        ELSE CacheLookup(req, cache_rows, 1, <<>>)
    IN  IF o.fetch_fails
        THEN AnalyzeRaised(500, <<>>, {"airfoils select raised"}, cache_rows)
        ELSE IF found = {} \/ missing_ids # {}
        THEN AnalyzeRaised(404, <<>>, {}, cache_rows)
        ELSE LET acc == AnalyzeEach(req, 1, airfoil_rows, cache_lookup, o,
                            [raised_status |-> 0, results |-> <<>>, calls |-> <<>>,
                             errors |-> lookup_errors, cache |-> cache_rows])
             IN  IF acc.raised_status # 0
                 THEN AnalyzeRaised(acc.raised_status, acc.calls, acc.errors,
                                    acc.cache)
                 ELSE AnalyzeReturned(FALSE, acc.results, acc.calls, acc.errors,
                                      acc.cache)

\* analyze, lines 247 and 471-472: the status the client gets.  The outer
\* "except Exception" also catches the HTTPExceptions raised in the body
\* (HTTPException is an Exception) and raises HTTPException(500) for each.
AnalyzeStatus(raised_status) == IF raised_status = 0 THEN 200 ELSE 500

\* A client posts to /api/analyze (the table has room for the rows the
\* request can add).
PostAnalyze ==
    /\ pc = "idle"
    /\ \E req \in AnalysisRequests :
        /\ Len(performance_cache) + Len(req.airfoil_ids) <= MaxRows
        /\ analysis_request' = req
    /\ pc' = "analyze"
    /\ UNCHANGED <<request, fitter, chord, upper_coords, lower_coords, upper, lower,
                   result, raised, http_status, reused, response,
                   analyze_airfoil_calls, db_errors, performance_cache, airfoils, supabase>>

\* analyze, lines 237-472, with a configured supabase client.
Analyze ==
    /\ pc = "analyze"
    /\ \E o \in AnalyzeOracles :
        \E out \in {IF ~supabase
                     THEN AnalyzeRaised(500, <<>>, {}, performance_cache)
                     ELSE IF Len(analysis_request.airfoil_ids) = 1
                     THEN AnalyzeSingle(analysis_request, performance_cache,
                                        airfoils, o)
                     ELSE AnalyzeMulti(analysis_request, performance_cache,
                                       airfoils, o)} :
            /\ http_status' = AnalyzeStatus(out.raised_status)
            /\ response' = out.body
            /\ analyze_airfoil_calls' = out.calls
            /\ db_errors' = out.errors
            /\ performance_cache' = out.cache
    /\ pc' = "done"
    /\ UNCHANGED <<request, fitter, chord, upper_coords, lower_coords, upper, lower,
                   result, raised, reused, analysis_request, airfoils, supabase>>

\* ------------------------------------------------ /api/airfoils/create
\* MAX_POINTS of validate_airfoil: the most points a surface may have (200 in
\* the source).
MAX_POINTS == 2

\* The most rows table airfoils is let grow to.
MaxAirfoils == 3

\* The ids uuid.uuid4() yields, in the order they are drawn.
AirfoilIdPool == <<"a3", "a4">>

\* The surfaces of the create requests, as lists of (x, y): none, two points
\* from the trailing edge, two from the leading edge, two with the same x and
\* one point more than MAX_POINTS with increasing x.
UploadSurfaces ==
    {<<>>, <<<<Scale, 0>>, <<0, 0>>>>, <<<<0, 0>>, <<Scale, 0>>>>,
     <<<<0, 0>>, <<0, 0>>>>, [k \in 1..(MAX_POINTS + 1) |-> <<k, 0>>]}

\* The AirfoilCreateRequests: a name table airfoils has and one it has not.
CreateRequests ==
    {[endpoint |-> "/api/airfoils/create", name |-> n, upper_surface |-> u,
      lower_surface |-> l] :
        n \in {"NACA 0012", "New"}, u \in UploadSurfaces,
        l \in {<<>>, <<<<0, 0>>, <<Scale, 0>>>>}}

\* validate_monotonic: strictly increasing or strictly decreasing.
ValidateMonotonic(x_coords) ==
    \/ Len(x_coords) < 2
    \/ \A i \in 1..(Len(x_coords) - 1) : x_coords[i] < x_coords[i + 1]
    \/ \A i \in 1..(Len(x_coords) - 1) : x_coords[i] > x_coords[i + 1]

\* validate_airfoil, lines 526-566: the errors it collects.  name_check_fails:
\* the select of the name check raises, which is logged and passed over.
ValidationErrors(req, airfoil_rows, configured, name_check_fails) ==
    {e \in {"name exists", "upper empty", "lower empty", "upper too long",
            "lower too long", "upper not monotonic", "lower not monotonic"} :
        \/ /\ e = "name exists"
           /\ configured /\ ~name_check_fails
           /\ \E a \in airfoil_rows : a.name = req.name
        \/ e = "upper empty" /\ Len(req.upper_surface) = 0
        \/ e = "lower empty" /\ Len(req.lower_surface) = 0
        \/ e = "upper too long" /\ Len(req.upper_surface) > MAX_POINTS
        \/ e = "lower too long" /\ Len(req.lower_surface) > MAX_POINTS
        \/ /\ e = "upper not monotonic"
           /\ ~ValidateMonotonic(Column(req.upper_surface, 1))
        \/ /\ e = "lower not monotonic"
           /\ ~ValidateMonotonic(Column(req.lower_surface, 1))}

\* validate_airfoil: its AirfoilValidationResponse.
ValidateAirfoil(req, airfoil_rows, configured, name_check_fails) ==
    LET errors == ValidationErrors(req, airfoil_rows, configured, name_check_fails)
    IN  [valid |-> errors = {}, errors |-> errors]

\* What the supabase client does during one create request: the select of the
\* name check raises; the insert raises, stores the row and returns it, or
\* returns no data.
CreateOracles ==
    [name_check_fails : BOOLEAN, insert : {"raised", "stored", "no data"}]

\* The row create_airfoil inserts: the columns the analysis endpoints read.
AirfoilRow(req, airfoil_id) ==
    [id |-> airfoil_id, name |-> req.name,
     upper_x_coordinates |-> Column(req.upper_surface, 1),
     upper_y_coordinates |-> Column(req.upper_surface, 2),
     lower_x_coordinates |-> Column(req.lower_surface, 1),
     lower_y_coordinates |-> Column(req.lower_surface, 2)]

\* An AirfoilCreateResponse; error holds the messages joined in the source.
CreateResponse(success, airfoil_id, slug, error) ==
    [success |-> success, airfoil_id |-> airfoil_id, slug |-> slug, error |-> error]

\* create_airfoil storing the row before it validates.
CreateAirfoilInsertingFirst(req, airfoil_rows, airfoil_id, configured, o) ==
    LET validation == ValidateAirfoil(req, airfoil_rows, configured, o.name_check_fails)
        stored == airfoil_rows \cup {AirfoilRow(req, airfoil_id)}
    IN  IF ~validation.valid
        THEN [body |-> CreateResponse(FALSE, None, None, validation.errors), rows |-> stored]
        ELSE [body |-> CreateResponse(TRUE, airfoil_id, req.name, None), rows |-> stored]

\* create_airfoil: its response and table airfoils afterwards.
CreateAirfoilResult(req, airfoil_rows, airfoil_id, configured, o) ==
    LET validation == ValidateAirfoil(req, airfoil_rows, configured, o.name_check_fails)
    IN  IF ~configured
        THEN [body |-> CreateResponse(FALSE, None, None, {"Database connection not available"}),
              rows |-> airfoil_rows]
        ELSE IF ~validation.valid
        THEN [body |-> CreateResponse(FALSE, None, None, validation.errors), rows |-> airfoil_rows]
        ELSE IF o.insert = "raised"
        THEN [body |-> CreateResponse(FALSE, None, None, {"Error creating airfoil"}),
              rows |-> airfoil_rows]
        ELSE IF o.insert = "no data"
        THEN [body |-> CreateResponse(FALSE, None, None,
                                    {"Failed to insert airfoil into database"}),
              rows |-> airfoil_rows]
        ELSE [body |-> CreateResponse(TRUE, airfoil_id, req.name, None),
              rows |-> airfoil_rows \cup {AirfoilRow(req, airfoil_id)}]

\* A client posts to /api/airfoils/create (the table has room for a row).
PostCreateAirfoil ==
    /\ pc = "idle"
    /\ Cardinality(airfoils) < MaxAirfoils
    /\ \E req \in CreateRequests : analysis_request' = req
    /\ pc' = "create_airfoil"
    /\ UNCHANGED <<request, fitter, chord, upper_coords, lower_coords, upper, lower,
                   result, raised, http_status, reused, response,
                   analyze_airfoil_calls, db_errors, performance_cache, airfoils,
                   supabase>>

\* create_airfoil, lines 583-670.  The handler answers 200 whatever happens.
CreateAirfoil ==
    /\ pc = "create_airfoil"
    /\ \E o \in CreateOracles :
        \E out \in {CreateAirfoilResult(analysis_request, airfoils,
                        AirfoilIdPool[Cardinality(airfoils) - Cardinality(StoredAirfoils) + 1],
                        supabase, o)} :
            /\ response' = out.body
            /\ airfoils' = out.rows
            /\ db_errors' = IF supabase /\ o.name_check_fails
                            THEN {"name check raised"} ELSE {}
    /\ http_status' = 200
    /\ pc' = "done"
    /\ UNCHANGED <<request, fitter, chord, upper_coords, lower_coords, upper, lower,
                   result, raised, reused, analysis_request, analyze_airfoil_calls,
                   performance_cache, supabase>>

\* ------------------------------------------- /api/control-surface/analyze
\* The float -0.0: equal to 0 in comparisons, written "-0.0" by json.dumps.
NegZero == -999999

\* deflection == 0 in Python: true of 0.0 and of -0.0.
IsZero(v) == v = 0 \/ v = NegZero

\* The FlapConfigurations of the requests: deflections 0.0, -0.0 and 5 degrees,
\* hinge points 0.5 and 0.75.
FlapConfigs ==
    {[deflection |-> d, hinge_point |-> h] :
        d \in {0, NegZero, 5}, h \in {Scale \div 2, (3 * Scale) \div 4}}

\* The ControlSurfaceAnalysisRequests: one flap configuration, or the same
\* zero deflection at both hinge points.
ControlSurfaceRequests ==
    {[endpoint |-> "/api/control-surface/analyze", airfoil_id |-> id,
      conditions |-> c, flap_configs |-> fs] :
        id \in {"a1", "a3"},
        c \in {ac \in AnalysisConditions : ac.Re = 1},
        fs \in {<<f>> : f \in FlapConfigs}
               \cup {<<[deflection |-> 0, hinge_point |-> Scale \div 2],
                       [deflection |-> 0, hinge_point |-> (3 * Scale) \div 4]>>}}

\* deflect_trailing_edge_flap: the deflected x and y lists.  AeroSandbox's
\* add_control_surface stands here as a lowering by the deflection of the
\* points behind the hinge.
DeflectTrailingEdgeFlap(x, y, deflection, hinge_point) ==
    [x |-> x,
     y |-> [k \in 1..Len(y) |-> IF x[k] > hinge_point THEN y[k] - deflection ELSE y[k]]]

\* deflected_x.index(min(deflected_x)), 1-based.
MinXIndex(deflected_x) ==
    CHOOSE k \in DOMAIN deflected_x :
        /\ \A j \in DOMAIN deflected_x : deflected_x[k] <= deflected_x[j]
        /\ \A j \in 1..(k - 1) : deflected_x[j] > deflected_x[k]

\* analyze_control_surface, lines 752-765 and 784-796: the lists split at the
\* leading edge into the geometry dictionary.
SplitAtLeadingEdge(deflected_x, deflected_y) ==
    LET min_x_idx == MinXIndex(deflected_x)
    IN  [upper_x |-> SubSeq(deflected_x, 1, min_x_idx),
         upper_y |-> SubSeq(deflected_y, 1, min_x_idx),
         lower_x |-> SubSeq(deflected_x, min_x_idx + 1, Len(deflected_x)),
         lower_y |-> SubSeq(deflected_y, min_x_idx + 1, Len(deflected_y))]

\* analyze_control_surface, lines 735-765: the geometry of a cache hit.
CachedGeometry(airfoil_data, flap_config) ==
    LET original_x == airfoil_data.upper_x_coordinates \o airfoil_data.lower_x_coordinates
        original_y == airfoil_data.upper_y_coordinates \o airfoil_data.lower_y_coordinates
        deflected == IF IsZero(flap_config.deflection)
                     THEN [x |-> original_x, y |-> original_y]
                     ELSE DeflectTrailingEdgeFlap(original_x, original_y,
                              flap_config.deflection, flap_config.hinge_point)
    IN  SplitAtLeadingEdge(deflected.x, deflected.y)

\* analyze_control_surface, lines 766-797: the geometry of a cache miss.
FreshGeometry(airfoil_data, flap_config) ==
    LET original_x == airfoil_data.upper_x_coordinates \o airfoil_data.lower_x_coordinates
        original_y == airfoil_data.upper_y_coordinates \o airfoil_data.lower_y_coordinates
        deflected == DeflectTrailingEdgeFlap(original_x, original_y,
                         flap_config.deflection, flap_config.hinge_point)
    IN  IF IsZero(flap_config.deflection)
        THEN [upper_x |-> airfoil_data.upper_x_coordinates,
              upper_y |-> airfoil_data.upper_y_coordinates,
              lower_x |-> airfoil_data.lower_x_coordinates,
              lower_y |-> airfoil_data.lower_y_coordinates]
        ELSE SplitAtLeadingEdge(deflected.x, deflected.y)

\* The cond_hash of one flap configuration hashed with its hinge point at
\* every deflection.
FlapHashWithHinge(conditions, airfoil_id, flap_config) ==
    GenerateConditionHash(conditions, airfoil_id, flap_config.hinge_point,
        flap_config.deflection)

\* The cond_hash of one flap configuration, lines 713-722.
FlapHash(conditions, airfoil_id, flap_config) ==
    GenerateConditionHash(conditions, airfoil_id,
        IF IsZero(flap_config.deflection) THEN 0 ELSE flap_config.hinge_point,
        flap_config.deflection)

\* What the supabase client, AeroSandbox and NeuralFoil do during one
\* control-surface request.
ControlOracles ==
    [lookup_fails : BOOLEAN, fetch_fails : BOOLEAN, no_rows_is_none : BOOLEAN,
     deflect_ok : BOOLEAN, neuralfoil_ok : BOOLEAN, insert_fails : BOOLEAN]

\* A ControlSurfaceResult.
ControlSurfaceResult(flap_config, geometry, performance) ==
    [deflection |-> flap_config.deflection, hinge_point |-> flap_config.hinge_point,
     geometry |-> geometry, performance |-> performance]

\* The performance_cache row of one flap configuration, lines 812-820.
FlapCacheRow(req, flap_config, cond_hash, outputs) ==
    [airfoil_id |-> req.airfoil_id, cond_hash |-> cond_hash,
     inputs |-> [field \in DOMAIN req.conditions \cup {"flap_fraction", "deflection"} |->
                    IF field = "flap_fraction"
                    THEN (IF IsZero(flap_config.deflection) THEN 0
                          ELSE flap_config.hinge_point)
                    ELSE IF field = "deflection" THEN flap_config.deflection
                    ELSE req.conditions[field]],
     outputs |-> outputs]

RECURSIVE ControlEachFailingOnCacheError(_, _, _, _, _)
\* The loop of analyze_control_surface letting the exceptions of the cache
\* select and of the cache insert leave the handler.
ControlEachFailingOnCacheError(req, k, airfoil_data, o, acc) ==
    IF k > Len(req.flap_configs) THEN acc
    ELSE LET flap_config == req.flap_configs[k]
             cond_hash == FlapHash(req.conditions, req.airfoil_id, flap_config)
             hits == CacheRowsFor(acc.cache, req.airfoil_id, cond_hash)
             geometry == FreshGeometry(airfoil_data, flap_config)
             call == AnalyzeAirfoilCall(airfoil_data.name, "xsmall")
             out == AnalyzeAirfoil(geometry.upper_x, geometry.upper_y,
                        geometry.lower_x, geometry.lower_y,
                        req.conditions.Re, req.conditions.Mach,
                        req.conditions.alpha_range, NCritOf(req.conditions),
                        "xsmall", o.neuralfoil_ok)
         IN  IF o.lookup_fails
             THEN [acc EXCEPT !.raised_status = 500,
                              !.errors = @ \cup {"cache select raised"}]
             ELSE IF ~IsZero(flap_config.deflection) /\ ~o.deflect_ok
             THEN [acc EXCEPT !.raised_status = 500,
                              !.errors = @ \cup {"deflect_trailing_edge_flap raised"}]
             ELSE IF hits # <<>>
             THEN ControlEachFailingOnCacheError(req, k + 1, airfoil_data, o,
                      [acc EXCEPT !.results = Append(@,
                          ControlSurfaceResult(flap_config,
                              CachedGeometry(airfoil_data, flap_config),
                              hits[1].outputs))])
             ELSE IF out.raised # ""
             THEN [acc EXCEPT !.raised_status = 500,
                              !.calls = Append(@, call),
                              !.errors = @ \cup {"analyze_airfoil raised"}]
             ELSE IF o.insert_fails
             THEN [acc EXCEPT !.raised_status = 500,
                              !.calls = Append(@, call),
                              !.errors = @ \cup {"cache insert raised"}]
             ELSE ControlEachFailingOnCacheError(req, k + 1, airfoil_data, o,
                      [acc EXCEPT
                          !.results = Append(@,
                              ControlSurfaceResult(flap_config, geometry, out.results)),
                          !.calls = Append(@, call),
                          !.cache = Append(@,
                              FlapCacheRow(req, flap_config, cond_hash, out.results))])

RECURSIVE ControlEach(_, _, _, _, _)
\* analyze_control_surface, lines 707-833: the loop over request.flap_configs
\* from index k on; acc holds results, the calls made, the exceptions caught
\* and the table so far.  An exception of deflect_trailing_edge_flap or of
\* analyze_airfoil ends the loop.
ControlEach(req, k, airfoil_data, o, acc) ==
    IF k > Len(req.flap_configs) THEN acc
    ELSE LET flap_config == req.flap_configs[k]
             cond_hash == FlapHash(req.conditions, req.airfoil_id, flap_config)
             hits == IF o.lookup_fails THEN <<>>
                     ELSE CacheRowsFor(acc.cache, req.airfoil_id, cond_hash)
             looked == [acc EXCEPT !.errors =
                           IF o.lookup_fails THEN @ \cup {"cache select raised"} ELSE @]
             deflects == ~IsZero(flap_config.deflection)
             geometry == FreshGeometry(airfoil_data, flap_config)
             call == AnalyzeAirfoilCall(airfoil_data.name, "xsmall")
             out == AnalyzeAirfoil(geometry.upper_x, geometry.upper_y,
                        geometry.lower_x, geometry.lower_y,
                        req.conditions.Re, req.conditions.Mach,
                        req.conditions.alpha_range, NCritOf(req.conditions),
                        "xsmall", o.neuralfoil_ok)
         IN  IF deflects /\ ~o.deflect_ok
             THEN [looked EXCEPT !.raised_status = 500,
                                 !.errors = @ \cup {"deflect_trailing_edge_flap raised"}]
             ELSE IF hits # <<>>
             THEN ControlEach(req, k + 1, airfoil_data, o,
                      [looked EXCEPT !.results = Append(@,
                          ControlSurfaceResult(flap_config,
                              CachedGeometry(airfoil_data, flap_config),
                              hits[1].outputs))])
             ELSE IF out.raised # ""
             THEN [looked EXCEPT !.raised_status = 500,
                                 !.calls = Append(@, call),
                                 !.errors = @ \cup {"analyze_airfoil raised"}]
             ELSE ControlEach(req, k + 1, airfoil_data, o,
                      [looked EXCEPT
                          !.results = Append(@,
                              ControlSurfaceResult(flap_config, geometry, out.results)),
                          !.calls = Append(@, call),
                          !.errors = IF o.insert_fails
                                     THEN @ \cup {"cache insert raised"} ELSE @,
                          !.cache = IF o.insert_fails THEN @
                                    ELSE Append(@,
                                        FlapCacheRow(req, flap_config, cond_hash, out.results))])

\* analyze_control_surface with a configured client: the status raised (0 for
\* none), the response body and what the request left behind.
AnalyzeControlSurfaceResult(req, cache_rows, airfoil_rows, o) ==
    LET found == {a \in airfoil_rows : a.id = req.airfoil_id}
    IN  IF o.fetch_fails \/ (found = {} /\ ~o.no_rows_is_none)
        THEN AnalyzeRaised(500, <<>>, {"airfoils select raised"}, cache_rows)
        ELSE IF found = {}
        THEN AnalyzeRaised(404, <<>>, {}, cache_rows)
        ELSE LET acc == ControlEach(req, 1, CHOOSE a \in found : TRUE, o,
                            [raised_status |-> 0, results |-> <<>>, calls |-> <<>>,
                             errors |-> {}, cache |-> cache_rows])
             IN  IF acc.raised_status # 0
                 THEN AnalyzeRaised(acc.raised_status, acc.calls, acc.errors, acc.cache)
                 ELSE [raised_status |-> 0,
                       body |-> [original_airfoil_id |-> req.airfoil_id,
                                 results |-> acc.results],
                       calls |-> acc.calls, errors |-> acc.errors, cache |-> acc.cache]

\* A client posts to /api/control-surface/analyze (the table has room for the
\* rows the request can add).
PostAnalyzeControlSurface ==
    /\ pc = "idle"
    /\ \E req \in ControlSurfaceRequests :
        /\ Len(performance_cache) + Len(req.flap_configs) <= MaxRows
        /\ analysis_request' = req
    /\ pc' = "control_surface"
    /\ UNCHANGED <<request, fitter, chord, upper_coords, lower_coords, upper, lower,
                   result, raised, http_status, reused, response,
                   analyze_airfoil_calls, db_errors, performance_cache, airfoils,
                   supabase>>

\* analyze_control_surface, lines 672-848.  The HTTPExceptions raised in the
\* body reach the client with their own status (lines 841-842).
AnalyzeControlSurface ==
    /\ pc = "control_surface"
    /\ \E o \in ControlOracles :
        \E out \in {IF ~supabase
                     THEN AnalyzeRaised(500, <<>>, {}, performance_cache)
                     ELSE AnalyzeControlSurfaceResult(analysis_request,
                              performance_cache, airfoils, o)} :
            /\ http_status' = IF out.raised_status = 0 THEN 200 ELSE out.raised_status
            /\ response' = out.body
            /\ analyze_airfoil_calls' = out.calls
            /\ db_errors' = out.errors
            /\ performance_cache' = out.cache
    /\ pc' = "done"
    /\ UNCHANGED <<request, fitter, chord, upper_coords, lower_coords, upper, lower,
                   result, raised, reused, analysis_request, airfoils, supabase>>

ServiceNext ==
    \/ PostAnalyze
    \/ Analyze
    \/ PostAnalyzeControlSurface
    \/ AnalyzeControlSurface
    \/ PostCreateAirfoil
    \/ CreateAirfoil
    \/ NextRequest

\* The server as started, with or without the supabase settings (lines 31-33).
ServiceInit ==
    /\ pc = "idle"
    /\ request = NoRequest
    /\ fitter = NoFitter
    /\ chord = 0
    /\ upper_coords = <<>>
    /\ lower_coords = <<>>
    /\ upper = NoSurfaceFit
    /\ lower = NoSurfaceFit
    /\ result = NoResult
    /\ raised = ""
    /\ http_status = 0
    /\ reused = FALSE
    /\ response = NoResponse
    /\ analysis_request = NoAnalysisRequest
    /\ analyze_airfoil_calls = <<>>
    /\ db_errors = {}
    /\ performance_cache = <<>>
    /\ airfoils = StoredAirfoils
    /\ supabase \in BOOLEAN

ServiceSpec == ServiceInit /\ [][ServiceNext]_vars

\* ---------------------------------------------------------- round trip
\* The control polygons of order ApiMinOrder that meet the constraints of
\* _reconstruct_cps: P0 = (0, 0), P1 on x = 0, Pn = (Scale, 0); the other
\* points anywhere on a grid.
ConstrainedPolygons ==
    {<<<<0, 0>>, <<0, y1>>>> \o interior \o <<<<Scale, 0>>>> :
        y1 \in {0, Scale},
        interior \in [1..(ApiMinOrder - 2) ->
                         {0, Scale \div 2, Scale} \X {0, Scale}]}

\* The call fit(xs, ys, xs, ys) on a fitter of the polygon's order, xs and ys
\* being the NumPoints points generate_curve samples from the polygon.
SampledRequest(polygon) ==
    LET samples == GenerateCurve(polygon, NumPoints)
    IN  [via |-> "lib", order |-> Len(polygon) - 1,
         upper_x |-> Column(samples, 1), upper_y |-> Column(samples, 2),
         lower_x |-> Column(samples, 1), lower_y |-> Column(samples, 2),
         polygon |-> polygon]

\* A caller constructs a fitter and calls fit on the samples of a known polygon.
RoundTripInit ==
    /\ pc = "fit"
    /\ \E polygon \in ConstrainedPolygons :
        /\ request = SampledRequest(polygon)
        /\ fitter = NewFitter(Len(polygon) - 1)
    /\ chord = 0
    /\ upper_coords = <<>>
    /\ lower_coords = <<>>
    /\ upper = NoSurfaceFit
    /\ lower = NoSurfaceFit
    /\ result = NoResult
    /\ raised = ""
    /\ http_status = 0
    /\ reused = FALSE
    /\ response = NoResponse
    /\ analysis_request = NoAnalysisRequest
    /\ analyze_airfoil_calls = <<>>
    /\ db_errors = {}
    /\ performance_cache = <<>>
    /\ airfoils = StoredAirfoils
    /\ supabase = TRUE

RoundTripNext ==
    \/ FitPrepare
    \/ FitUpper
    \/ FitLower

RoundTripSpec == RoundTripInit /\ [][RoundTripNext]_vars

\* -------------------------------------------------------------- claims
\* fit has returned its dictionary.
FitReturned == result # NoResult

\* fit has been entered and has got past lines 225-238 or raised there.
FitEntered == fitter # NoFitter /\ pc # "fit"

\* The largest x among the samples of both surfaces of the request.
MaxSampleX ==
    LET xs == {request.upper_x[k] : k \in DOMAIN request.upper_x}
                  \cup {request.lower_x[k] : k \in DOMAIN request.lower_x}
    IN  CHOOSE m \in xs : \A v \in xs : v <= m

Last(s) == s[Len(s)]

\* C1: for every order >= 2, whatever vector the optimizer returned, both
\* control polygons returned by fit start at (0, 0) and end at (chord, 0), chord
\* being the largest x over the samples of both surfaces; the two polygons share
\* their last point.
C1_FixedEndpoints ==
    (FitReturned /\ fitter.order >= 2) =>
        /\ result.upper_control_points[1] = <<0, 0>>
        /\ result.lower_control_points[1] = <<0, 0>>
        /\ Last(result.upper_control_points) = <<MaxSampleX, 0>>
        /\ Last(result.lower_control_points) = <<MaxSampleX, 0>>
        /\ Last(result.upper_control_points) = Last(result.lower_control_points)

\* C1 witness: a fit returned whose chord comes from the lower surface alone and
\* whose upper optimizer result is not the all-zero vector.
C1_W_ChordFromLower ==
    /\ FitReturned /\ fitter.order >= 2
    /\ \A k \in DOMAIN request.upper_x : request.upper_x[k] < MaxSampleX
    /\ upper.x[1] # 0

\* C2: for every order >= 2 the x of control point 1 of both returned polygons
\* is 0, whatever vector the optimizer returned.
C2_VerticalTangent ==
    (FitReturned /\ fitter.order >= 2) =>
        /\ result.upper_control_points[2][1] = 0
        /\ result.lower_control_points[2][1] = 0

\* C2 witness: a fit returned where the optimizer's vectors have no zero entry.
C2_W_NonZeroParams ==
    /\ FitReturned /\ fitter.order >= 3
    /\ \A j \in DOMAIN upper.x : upper.x[j] # 0
    /\ \A j \in DOMAIN lower.x : lower.x[j] # 0

\* A surface of the request has fewer than 2 points or coordinate lists of
\* different lengths.
BadSurfaces(req) ==
    \/ Len(req.upper_x) # Len(req.upper_y)
    \/ Len(req.lower_x) # Len(req.lower_y)
    \/ Len(req.upper_x) < 2
    \/ Len(req.lower_x) < 2

\* C3 (as claimed): when fit is called with a surface of fewer than 2 points or
\* with coordinate lists of different lengths, the optimizer is invoked for
\* neither surface and the call ends with an exception raised.
C3_FitRejectsBadSurfaces ==
    (FitEntered /\ BadSurfaces(request)) =>
        /\ ~upper.minimize_called
        /\ ~lower.minimize_called
        /\ (pc = "done") => raised # ""

\* C4: the endpoint answers 400 exactly for the requests with differing list
\* lengths or a surface of fewer than 2 points, and then no fitter was
\* constructed and no optimizer invoked; an exception raised after validation
\* is answered with 500.
C4_EndpointStatus ==
    (request.via = "api" /\ pc = "done") =>
        /\ (http_status = 400) <=> BadSurfaces(request)
        /\ (http_status = 400) =>
               /\ fitter = NoFitter /\ raised = ""
               /\ ~upper.minimize_called /\ ~lower.minimize_called
        /\ (raised # "") => http_status = 500
        /\ (raised = "" /\ ~BadSurfaces(request)) => http_status = 200

\* C4 witness: an exception raised inside fit, after validation passed, was
\* answered with 500.
C4_W_InternalError ==
    /\ request.via = "api" /\ pc = "done"
    /\ ~BadSurfaces(request)
    /\ raised # "" /\ http_status = 500

\* A coordinate of the request is not finite.
NonFinite(req) ==
    \/ \E k \in DOMAIN req.upper_x : ~IsFinite(req.upper_x[k])
    \/ \E k \in DOMAIN req.upper_y : ~IsFinite(req.upper_y[k])
    \/ \E k \in DOMAIN req.lower_x : ~IsFinite(req.lower_x[k])
    \/ \E k \in DOMAIN req.lower_y : ~IsFinite(req.lower_y[k])

\* C5 (as claimed): a request with a non-finite coordinate never gets as far as
\* the optimizer, and the endpoint answers it with a client error.
C5_NonFiniteRejected ==
    (NonFinite(request) /\ ~BadSurfaces(request)) =>
        /\ ~upper.minimize_called
        /\ ~lower.minimize_called
        /\ (request.via = "api" /\ pc = "done") => http_status = 400

\* The request is valid input for fit: lists of equal lengths, at least 2 points
\* per surface, finite coordinates.
ValidInput(req) == ~BadSurfaces(req) /\ ~NonFinite(req)

\* The keys of the dictionary fit returns.
ResultKeys ==
    {"upper_control_points", "lower_control_points", "upper_curve", "lower_curve",
     "upper_sse", "lower_sse", "order"}

\* What C6 says of one surface's outcome s for the samples coords.
UnconvergedKept(s, coords, is_upper) ==
    (s.minimize_called /\ AllFinite(coords) /\ IsFinite(chord) /\ ~s.success) =>
        /\ s.raised = ""
        /\ s.cps = ReconstructCps(fitter, s.x, <<0, 0>>, <<chord, 0>>)
        /\ s.sse = CalculateError(fitter, s.x, coords, <<0, 0>>, <<chord, 0>>)
        /\ s.x = Candidates(GenerateInitialGuess(fitter, coords, chord, is_upper))[s.pick]

\* C6: when the optimizer reports no success, _fit_surface raises nothing and
\* returns the polygon reconstructed from the vector it stopped at and the
\* objective's value there; the dictionary fit returns has the same keys, none
\* of them a convergence flag, and the same values as for a converged fit that
\* stopped at the same vectors.
C6_NonConvergenceAbsorbed ==
    /\ UnconvergedKept(upper, upper_coords, TRUE)
    /\ UnconvergedKept(lower, lower_coords, FALSE)
    /\ (FitEntered /\ pc = "done" /\ ValidInput(request) /\ fitter.order >= 2) =>
          (raised = "" /\ FitReturned)
    /\ FitReturned =>
          /\ DOMAIN result = ResultKeys
          /\ result = FitResult(fitter, [upper EXCEPT !.success = TRUE],
                                [lower EXCEPT !.success = TRUE])

\* C6 witness: fit returned although the optimizer reported no success for
\* either surface.
C6_W_BothUnconverged ==
    FitReturned /\ ~upper.success /\ ~lower.success /\ upper.pick = 2

\* C7 (as claimed): for every order >= 1, fit on valid input completes and
\* returns polygons of order + 1 points; for order 2 the parameter vector has
\* length 1.
C7_EveryOrderCompletes ==
    (FitEntered /\ pc = "done" /\ ValidInput(request) /\ fitter.order >= 1) =>
        /\ raised = ""
        /\ Len(result.upper_control_points) = fitter.order + 1
        /\ Len(result.lower_control_points) = fitter.order + 1
        /\ (fitter.order = 2) => (Len(upper.x) = 1 /\ Len(lower.x) = 1)

\* C8: the SSE of each surface is never negative: neither the one _fit_surface
\* got from the optimizer nor the ones fit returns, nor the objective at any of
\* the vectors the optimizer may evaluate.
C8_SseNonNegative ==
    /\ upper.sse >= 0 /\ lower.sse >= 0
    /\ result.upper_sse >= 0 /\ result.lower_sse >= 0
    /\ (pc = "fit_upper" /\ ~InitialGuessRaises(fitter)
          /\ AllFinite(upper_coords) /\ AllFinite(lower_coords)) =>
          \A pick \in CandidatePicks :
              /\ CalculateError(fitter,
                     Candidates(GenerateInitialGuess(fitter, upper_coords, chord, TRUE))[pick],
                     upper_coords, <<0, 0>>, <<chord, 0>>) >= 0
              /\ CalculateError(fitter,
                     Candidates(GenerateInitialGuess(fitter, lower_coords, chord, FALSE))[pick],
                     lower_coords, <<0, 0>>, <<chord, 0>>) >= 0

\* C8 witness: fit returned a positive SSE for both surfaces.
C8_W_PositiveSse == FitReturned /\ result.upper_sse > 0 /\ result.lower_sse > 0

\* The sampled curve of one surface's outcome.
CurveOf(s) == GenerateCurve(s.cps, NumPoints)

\* What C9 says of the objective's evaluation at outcome s over coords: at no
\* data point is a division by zero made, and a segment next to the nearest
\* curve point whose endpoints coincide yields the distance to that endpoint.
NoZeroDivision(s, coords) ==
    (s.minimize_called /\ s.raised = "") =>
        \A curve \in {CurveOf(s)} : \A k \in DOMAIN coords :
            \A e \in {PointError(curve, coords[k])} :
                LET at == curve[e.idx + 1]
                    d == EuclidDist(coords[k][1], coords[k][2], at[1], at[2])
                IN  /\ ~e.zero_div
                    /\ (e.idx > 0 /\ curve[e.idx] = at) => e.d1 = d
                    /\ (e.idx < Len(curve) - 1 /\ curve[e.idx + 2] = at) => e.d2 = d

\* C9: _point_line_segment_distance never divides by zero; for a segment whose
\* endpoints coincide it returns the distance from the point to that endpoint,
\* so the objective over a curve with duplicate adjacent points completes.
C9_NoDivisionByZero ==
    /\ NoZeroDivision(upper, upper_coords)
    /\ NoZeroDivision(lower, lower_coords)

\* C9 witness: the objective was evaluated for a data point whose nearest curve
\* point coincides with the next curve point, at a positive distance.
C9_W_DuplicateCurvePoints ==
    /\ upper.minimize_called /\ upper.raised = ""
    /\ \E k \in DOMAIN upper_coords :
          LET curve == CurveOf(upper)
              e == PointError(curve, upper_coords[k])
          IN  /\ e.idx < Len(curve) - 1
              /\ curve[e.idx + 2] = curve[e.idx + 1]
              /\ e.min_d > 0

\* The sample points with finite coordinates.
FiniteSamples == {p \in SamplePoints : IsFinite(p[1]) /\ IsFinite(p[2])}

\* The coordinate arrays of the surfaces with finite samples.
FiniteSurfaceData == {sd : sd \in SeqsUpTo(FiniteSamples, MaxPts) \ {<<>>}}

\* The oracles, enumerated.
OracleSet == {o : o \in Oracles}

\* _fit_surface tabulated over the finite surfaces of the requests, so that the
\* formulas below evaluate each surface fit once.
SurfaceFits ==
    [order \in 0..MaxOrder |->
        [surface_data \in FiniteSurfaceData |->
            [c \in {p[1] : p \in FiniteSamples} |->
                [is_upper \in BOOLEAN |->
                    [oracle \in OracleSet |->
                        FitSurface(NewFitter(order), surface_data, c,
                                   is_upper, oracle)]]]]]

\* fit tabulated over the requests of finite samples and the orders fit returns
\* for: lines 225-256 for the coordinate arrays u and l.
FitTable ==
    [order \in {n \in 0..MaxOrder : ~InitialGuessRaises(NewFitter(n))} |->
        [u \in FiniteSurfaceData |->
            [l \in FiniteSurfaceData |->
                [ou \in OracleSet |->
                    [ol \in OracleSet |->
                        FitResult(NewFitter(order),
                            SurfaceFits[order][SortLeToTe(u)][Chord(u, l)][TRUE][ou],
                            SurfaceFits[order][SortLeToTe(l)][Chord(u, l)][FALSE][ol])]]]]]

\* fit as one operator: what the call returns for request req (of finite
\* samples) when the optimizer behaves as ou for the upper and ol for the lower
\* surface.
FitOf(req, ou, ol) ==
    FitTable[req.order][ColumnStack(req.upper_x, req.upper_y)]
            [ColumnStack(req.lower_x, req.lower_y)][ou][ol]

\* The request with the sample order of the upper and/or the lower surface
\* reversed.
Reversals(req) ==
    {[req EXCEPT !.upper_x = Reverse(@), !.upper_y = Reverse(@)],
     [req EXCEPT !.lower_x = Reverse(@), !.lower_y = Reverse(@)],
     [req EXCEPT !.upper_x = Reverse(@), !.upper_y = Reverse(@),
                 !.lower_x = Reverse(@), !.lower_y = Reverse(@)]}

\* C10: after the sort the first sample's x is not greater than the last's, and
\* the dictionary fit returned equals the one it returns for the request with a
\* surface's samples in reverse order (the optimizer, given the same objective
\* and the same initial guess, behaving the same).
C10_OrientationInvariant ==
    /\ (pc \in {"fit_upper", "fit_lower"} \/ FitReturned) =>
          /\ upper_coords[1][1] <= Last(upper_coords)[1]
          /\ lower_coords[1][1] <= Last(lower_coords)[1]
    /\ (FitReturned /\ pc = "done") =>
          \A rev \in Reversals(request) \ {request} :
              FitOf(rev, [pick |-> upper.pick, success |-> upper.success],
                    [pick |-> lower.pick, success |-> lower.success]) = result

\* C10 witness: fit returned for a request whose upper samples ran TE -> LE and
\* were reversed by the sort, the optimizer having stopped at the initial guess.
C10_W_ReversedInput ==
    /\ FitReturned
    /\ request.upper_x[1] > Last(request.upper_x)
    /\ upper_coords = Reverse(ColumnStack(request.upper_x, request.upper_y))
    /\ upper.pick = 1 /\ lower.pick = 1

\* The oracle recorded in one surface's outcome.
OracleOf(s) == [pick |-> s.pick, success |-> s.success]

\* The lists xs, ys are a surface fit accepts and fits: equal lengths, at least
\* one point, finite coordinates.
Fittable(xs, ys) ==
    /\ Len(xs) = Len(ys) /\ Len(xs) >= 1
    /\ \A k \in DOMAIN xs : IsFinite(xs[k]) /\ IsFinite(ys[k])

\* The surfaces fit accepts and fits.
FittableSurfaces == {s \in Surfaces : Fittable(s.x, s.y)}

\* The requests with the order and the upper samples of req whose lower samples
\* have the same largest x as req's.
SameUpper(req) ==
    {[req EXCEPT !.lower_x = l.x, !.lower_y = l.y] :
        l \in {s \in FittableSurfaces : SeqMax(s.x) = SeqMax(req.lower_x)}}

\* The requests with the order and the lower samples of req whose upper samples
\* have the same largest x as req's.
SameLower(req) ==
    {[req EXCEPT !.upper_x = u.x, !.upper_y = u.y] :
        u \in {s \in FittableSurfaces : SeqMax(s.x) = SeqMax(req.upper_x)}}

\* The optimizer stopping at the initial guess and reporting success.
StopsAtGuess == [pick |-> 1, success |-> TRUE]

\* C11: the upper polygon, curve and SSE fit returned are those of every call
\* with the same order and upper samples (the optimizer behaving on them as it
\* did here) and any lower samples of the same largest x, whatever the optimizer
\* does on those; symmetrically for the lower surface.
C11_SurfacesIndependent ==
    (FitReturned /\ pc = "done") =>
        /\ \A alt \in SameUpper(request) : \A ol \in Oracles :
              \A r \in {FitOf(alt, OracleOf(upper), ol)} :
                  /\ r.upper_control_points = result.upper_control_points
                  /\ r.upper_curve = result.upper_curve
                  /\ r.upper_sse = result.upper_sse
        /\ \A alt \in SameLower(request) : \A ou \in Oracles :
              \A r \in {FitOf(alt, ou, OracleOf(lower))} :
                  /\ r.lower_control_points = result.lower_control_points
                  /\ r.lower_curve = result.lower_curve
                  /\ r.lower_sse = result.lower_sse

\* C11 witness: fit returned with a positive upper SSE for a request that has
\* another lower surface of the same largest x, fitted with another SSE.
C11_W_OtherLowerDiffers ==
    /\ FitReturned /\ pc = "done"
    /\ result.upper_sse > 0
    /\ \E alt \in SameUpper(request) :
          /\ alt.lower_y # request.lower_y
          /\ FitOf(alt, OracleOf(upper), OracleOf(lower)).lower_sse # result.lower_sse

ResponseKeys ==
    {"upper_control_points", "lower_control_points", "upper_curve", "lower_curve",
     "order", "upper_sse", "lower_sse"}

\* The x and y lists of a coordinate-list pair both have length n.
ListsOfLength(pair, n) ==
    DOMAIN pair = {"x", "y"} /\ Len(pair.x) = n /\ Len(pair.y) = n

\* C13: every 200 response of /api/bezier-fit holds, for each surface, control
\* point x and y lists of length order + 1 and curve x and y lists of length
\* NumPoints (200 in the source), the requested order, and two SSE numbers.
C13_ResponseShape ==
    (request.via = "api" /\ http_status = 200) =>
        /\ DOMAIN response = ResponseKeys
        /\ ListsOfLength(response.upper_control_points, request.order + 1)
        /\ ListsOfLength(response.lower_control_points, request.order + 1)
        /\ ListsOfLength(response.upper_curve, NumPoints)
        /\ ListsOfLength(response.lower_curve, NumPoints)
        /\ response.order = request.order
        /\ response.upper_sse \in Int /\ response.lower_sse \in Int

\* C13 witness: a 200 response whose two polygons differ and whose upper SSE is
\* positive.
C13_W_Answered ==
    /\ request.via = "api" /\ http_status = 200
    /\ response.upper_control_points # response.lower_control_points
    /\ response.upper_sse > 0

\* The free parameters of a constrained polygon, in the layout of
\* _reconstruct_cps.
ParamsOf(polygon) ==
    [j \in 1..(1 + 2 * (Len(polygon) - 3)) |->
        IF j = 1 THEN polygon[2][2]
        ELSE IF j % 2 = 0 THEN polygon[j \div 2 + 2][1]
        ELSE polygon[j \div 2 + 2][2]]

\* Point by point, the two polygons are no further apart than one unit of the
\* fixed-point grid in either coordinate.
Close(cps, polygon) ==
    /\ Len(cps) = Len(polygon)
    /\ \A k \in DOMAIN cps :
          Abs(cps[k][1] - polygon[k][1]) <= 1 /\ Abs(cps[k][2] - polygon[k][2]) <= 1

\* Every point of the polygon has y = 0.
Flat(polygon) == \A k \in DOMAIN polygon : polygon[k][2] = 0

C15_TablesUntouched ==
    [][performance_cache' = performance_cache /\ airfoils' = airfoils]_vars

\* C15 witness: /api/analyze-cst has answered 200 with the results of
\* analyze_airfoil.
C15_W_TransientAnswered ==
    /\ pc = "done" /\ http_status = 200
    /\ analysis_request.endpoint = "/api/analyze-cst"
    /\ analyze_airfoil_calls = <<AnalyzeAirfoilCall("CST Airfoil", "xlarge")>>
    /\ response.aero.model_size = "xlarge"

\* ------------------------------------------------------------------ C16
\* The key of the single-airfoil request being served.
RequestedId == analysis_request.airfoil_ids[1]

RequestedHash == GenerateConditionHash(analysis_request.conditions, RequestedId, None, None)

\* A single-airfoil /api/analyze request is about to be handled.
SingleAnalyzePending ==
    /\ pc = "analyze"
    /\ Len(analysis_request.airfoil_ids) = 1

\* C16: when a single-airfoil /api/analyze request is handled while
\* performance_cache holds a row for (airfoil_id, cond_hash) and the cache
\* select itself does not fail, the answer is 200 with cached = True and the
\* stored outputs of such a row, analyze_airfoil is not called and
\* performance_cache is left as it was.
C16_CacheHitServed ==
    [][(/\ SingleAnalyzePending
        /\ CacheRowsFor(performance_cache, RequestedId, RequestedHash) # <<>>
        /\ "cache select raised" \notin db_errors')
       => (/\ http_status' = 200
           /\ response'.cached = TRUE
           /\ \E k \in DOMAIN performance_cache :
                 /\ performance_cache[k].airfoil_id = RequestedId
                 /\ performance_cache[k].cond_hash = RequestedHash
                 /\ response'.results = performance_cache[k].outputs
           /\ analyze_airfoil_calls' = <<>>
           /\ performance_cache' = performance_cache)]_vars

\* ------------------------------------------------------------------ C20
\* An id of the request served has no row in table airfoils.
SomeAirfoilMissing ==
    \E j \in DOMAIN analysis_request.airfoil_ids :
        \A a \in airfoils : a.id # analysis_request.airfoil_ids[j]

\* C20: with a configured supabase client, an /api/analyze request naming an
\* airfoil that does not exist, whose
\* select on table airfoils came back without raising, is answered with
\* status 404, on the single-airfoil and on the multi-airfoil path.
C20_MissingAirfoilIs404 ==
    (/\ pc = "done" /\ supabase
     /\ analysis_request.endpoint = "/api/analyze"
     /\ SomeAirfoilMissing
     /\ "airfoils select raised" \notin db_errors)
    => http_status = 404

\* ------------------------------------------------------------------ C17
\* The 1-based index of the sampled curve point nearest to point (the lowest
\* among equally near ones).
NearestIndex(curve, point) ==
    CHOOSE k \in DOMAIN curve :
        /\ \A j \in DOMAIN curve : SqDist(point, curve[k]) <= SqDist(point, curve[j])
        /\ \A j \in 1..(k - 1) : SqDist(point, curve[j]) > SqDist(point, curve[k])

\* The segments of the sampled curve that end or start at curve point k, each
\* as the index of its first endpoint.
AdjacentSegments(curve, k) == {a \in {k - 1, k} : a >= 1 /\ a + 1 <= Len(curve)}

\* The clamped distances from point to the segments adjacent to its nearest
\* sampled curve point.
AdjacentDistances(curve, point) ==
    {PointLineSegmentDistance(point[1], point[2], curve[a][1], curve[a][2],
                              curve[a + 1][1], curve[a + 1][2]).dist :
        a \in AdjacentSegments(curve, NearestIndex(curve, point))}

\* What C17 says one data point contributes to the objective.
Contribution(curve, point) ==
    LET ds == AdjacentDistances(curve, point)
        near == curve[NearestIndex(curve, point)]
        d == IF ds = {}
             THEN EuclidDist(point[1], point[2], near[1], near[2])
             ELSE CHOOSE m \in ds : \A e \in ds : m <= e
    IN  Mul(d, d)

RECURSIVE ContributionSum(_, _, _)
\* The contributions of the first k data points, added up.
ContributionSum(curve, coords, k) ==
    IF k = 0 THEN 0
    ELSE ContributionSum(curve, coords, k - 1) + Contribution(curve, coords[k])

\* The projection parameter is clamped to [0, 1]: a point that projects before
\* the first endpoint of segment a is at its distance from that endpoint, one
\* that projects beyond the second endpoint at its distance from that one.
Clamped(curve, point, a) ==
    LET dx == curve[a + 1][1] - curve[a][1]
        dy == curve[a + 1][2] - curve[a][2]
        dot == (point[1] - curve[a][1]) * dx + (point[2] - curve[a][2]) * dy
        d == PointLineSegmentDistance(point[1], point[2], curve[a][1], curve[a][2],
                                      curve[a + 1][1], curve[a + 1][2]).dist
    IN  /\ dot <= 0 =>
              d = EuclidDist(point[1], point[2], curve[a][1], curve[a][2])
        /\ dot >= dx * dx + dy * dy =>
              d = EuclidDist(point[1], point[2], curve[a + 1][1], curve[a + 1][2])

\* What C17 says of the SSE of outcome s over the samples coords.
SseIsSegmentSum(s, coords) ==
    (s.minimize_called /\ s.raised = "") =>
        \A curve \in {CurveOf(s)} :
            /\ s.sse = ContributionSum(curve, coords, Len(coords))
            /\ \A k \in DOMAIN coords :
                  \A a \in AdjacentSegments(curve, NearestIndex(curve, coords[k])) :
                      Clamped(curve, coords[k], a)

\* C17: the SSE of a surface is the sum, over its data points, of the square
\* of the smaller clamped distance to the sampled-curve segments adjacent to
\* the point's nearest sampled curve point (the distance to that curve point
\* when no segment is adjacent), the projection parameter being clamped to
\* [0, 1].
C17_SseIsSegmentSum ==
    /\ SseIsSegmentSum(upper, upper_coords)
    /\ SseIsSegmentSum(lower, lower_coords)

\* C17 witness: the objective was evaluated for a data point that is nearer to
\* an adjacent segment than to its nearest sampled curve point, and for one
\* whose projection on an adjacent segment was clamped.
C17_W_SegmentNearer ==
    /\ upper.minimize_called /\ upper.raised = "" /\ upper.sse > 0
    /\ \E k \in DOMAIN upper_coords :
          LET curve == CurveOf(upper)
              near == curve[NearestIndex(curve, upper_coords[k])]
          IN  \E d \in AdjacentDistances(curve, upper_coords[k]) :
                  d < EuclidDist(upper_coords[k][1], upper_coords[k][2],
                                 near[1], near[2])
    /\ \E k \in DOMAIN upper_coords :
          LET curve == CurveOf(upper)
              a == NearestIndex(curve, upper_coords[k])
          IN  /\ a + 1 <= Len(curve)
              /\ curve[a + 1] # curve[a]
              /\ (upper_coords[k][1] - curve[a][1]) * (curve[a + 1][1] - curve[a][1])
                   + (upper_coords[k][2] - curve[a][2]) * (curve[a + 1][2] - curve[a][2])
                   < 0

\* ------------------------------------------------------------------ C18
\* max|y| over the samples coords.
MaxAbsY(coords) ==
    LET ys == {Abs(coords[k][2]) : k \in DOMAIN coords}
    IN  CHOOSE m \in ys : \A v \in ys : v <= m

\* What C18 says of the initial guess of a surface, read from an outcome s at
\* which the optimizer stopped at its initial guess: sign is 1 for the upper
\* and -1 for the lower surface.
GuessAsClaimed(s, coords, sign) ==
    (s.minimize_called /\ s.raised = "" /\ s.pick = StopsAtGuess.pick) =>
        LET n == fitter.order
            y == sign * MaxAbsY(coords)
        IN  /\ Len(s.x) = 1 + 2 * (n - 2)
            /\ s.x[1] = Mul(y, Scale \div 2)
            /\ \A i \in 2..(n - 1) :
                  /\ s.x[2 * (i - 1)] = (i * chord) \div n
                  /\ s.x[2 * (i - 1) + 1] = y
            /\ \A j \in DOMAIN s.x : j % 2 = 1 => sign * s.x[j] >= 0
            /\ s.cps[2] = <<0, s.x[1]>>
            /\ \A i \in 2..(n - 1) :
                  s.cps[i + 1] = <<s.x[2 * (i - 1)], s.x[2 * (i - 1) + 1]>>

\* C18: the initial guess of a surface of order n and chord c has 1 + 2*(n-2)
\* entries [y1, x2, y2, ..., x(n-1), y(n-1)] with y1 = 0.5 * max|y|,
\* x(i) = i*c/n and y(i) = max|y| for i in 2..n-1, the y values negated for the
\* lower surface, and _reconstruct_cps reads y1 into point 1 and (x(i), y(i))
\* into point i.
C18_InitialGuess ==
    /\ GuessAsClaimed(upper, upper_coords, 1)
    /\ GuessAsClaimed(lower, lower_coords, -1)

\* C18 witness: both surfaces of an order-3 fit stopped at their initial
\* guess, with an interior point off the leading edge, a positive y guess for
\* the upper and a negative one for the lower surface.
C18_W_GuessKept ==
    /\ FitReturned /\ fitter.order = 3
    /\ upper.pick = StopsAtGuess.pick /\ lower.pick = StopsAtGuess.pick
    /\ upper.x[1] > 0 /\ lower.x[1] < 0
    /\ upper.x[2] > 0 /\ lower.x[3] < 0

\* ------------------------------------------------------------------ C19
\* The samples of the request's surfaces as fit stacks them.
RequestUpper == ColumnStack(request.upper_x, request.upper_y)

RequestLower == ColumnStack(request.lower_x, request.lower_y)

\* What C19 says of the outputs of one surface: cps, curve and sse are the
\* returned polygon, curve and SSE, x the optimizer's solution vector and
\* samples the surface as the request gave it.
OutputsConsistent(cps, curve, sse, x, samples) ==
    LET c == Chord(RequestUpper, RequestLower)
    IN  /\ cps = ReconstructCps(fitter, x, <<0, 0>>, <<c, 0>>)
        /\ curve = GenerateCurve(cps, NumPoints)
        /\ Len(curve) = NumPoints
        /\ sse = CalculateError(fitter, x, SortLeToTe(samples), <<0, 0>>, <<c, 0>>)

\* C19: when fit returns, each surface's polygon is the reconstruction of the
\* optimizer's solution vector, its curve is generate_curve of that polygon
\* and its SSE is the objective at that vector over the surface's samples
\* ordered leading edge first.
C19_OutputsConsistent ==
    FitReturned =>
        /\ OutputsConsistent(result.upper_control_points, result.upper_curve,
                             result.upper_sse, upper.x, RequestUpper)
        /\ OutputsConsistent(result.lower_control_points, result.lower_curve,
                             result.lower_sse, lower.x, RequestLower)

\* C19 witness: fit returned for an upper surface given trailing edge first
\* whose solution vector is not the initial guess and whose SSE is not the
\* objective at the initial guess.
C19_W_MovedFromGuess ==
    /\ FitReturned
    /\ upper.pick # StopsAtGuess.pick
    /\ RequestUpper # SortLeToTe(RequestUpper)
    /\ result.upper_control_points # result.lower_control_points
    /\ result.upper_sse #
          CalculateError(fitter,
              GenerateInitialGuess(fitter, upper_coords, chord, TRUE),
              upper_coords, <<0, 0>>, <<chord, 0>>)

\* ------------------------------------------------------------------ C29
\* What C29 says of a returned curve: its first point is the trailing edge
\* (chord, 0), which is the last control point, and its last point the leading
\* edge (0, 0), which is the first control point.
RunsTeToLe(curve, cps) ==
    /\ curve[1] = <<chord, 0>> /\ curve[1] = cps[Len(cps)]
    /\ curve[Len(curve)] = <<0, 0>> /\ curve[Len(curve)] = cps[1]

\* C29: each curve fit returns starts at the trailing edge (chord, 0), the
\* last control point, and ends at the leading edge (0, 0), the first control
\* point; the polygon and the normalized samples run the other way, from the
\* leading edge on.
C29_CurveRunsTeToLe ==
    FitReturned =>
        /\ RunsTeToLe(result.upper_curve, result.upper_control_points)
        /\ RunsTeToLe(result.lower_curve, result.lower_control_points)
        /\ upper_coords[1][1] <= upper_coords[Len(upper_coords)][1]
        /\ lower_coords[1][1] <= lower_coords[Len(lower_coords)][1]

\* C29 witness: fit returned for a positive chord and samples that do run from
\* the leading edge to the trailing edge, so that the curve's first point is
\* not the polygon's first point.
C29_W_Reversed ==
    /\ FitReturned /\ chord > 0
    /\ upper_coords[1][1] < upper_coords[Len(upper_coords)][1]
    /\ result.upper_curve[1] # result.upper_control_points[1]
    /\ result.upper_curve[1][1] > result.upper_curve[NumPoints][1]

\* ------------------------------------------------------------------ C21
\* Row k of performance_cache was stored by the single-airfoil path for the
\* key of the request being served: that path alone analyzes with "xlarge".
StoredBySinglePath(k) ==
    /\ performance_cache[k].airfoil_id = RequestedId
    /\ performance_cache[k].cond_hash = RequestedHash
    /\ performance_cache[k].outputs.aero.model_size = "xlarge"

\* C21: once a single-airfoil request has missed, analyzed and stored its row,
\* every later identical request whose cache select does not fail is answered
\* 200 with cached = True and the outputs stored, without a call of
\* analyze_airfoil, whatever /api/analyze requests came before or in between.
C21_HitAfterMiss ==
    [][(/\ SingleAnalyzePending
        /\ \E k \in DOMAIN performance_cache : StoredBySinglePath(k)
        /\ "cache select raised" \notin db_errors')
       => (/\ http_status' = 200
           /\ response'.cached = TRUE
           /\ \E k \in DOMAIN performance_cache :
                 StoredBySinglePath(k) /\ response'.results = performance_cache[k].outputs
           /\ analyze_airfoil_calls' = <<>>)]_vars

\* ------------------------------------------------------------------ C25
\* The stored airfoil of the single-airfoil request served.
RequestedAirfoil == CHOOSE a \in airfoils : a.id = RequestedId

\* What analyze_airfoil computes for the requested airfoil and conditions with
\* model size "xlarge".
XlargeOutputs ==
    AnalyzeAirfoil(RequestedAirfoil.upper_x_coordinates,
                   RequestedAirfoil.upper_y_coordinates,
                   RequestedAirfoil.lower_x_coordinates,
                   RequestedAirfoil.lower_y_coordinates,
                   analysis_request.conditions.Re, analysis_request.conditions.Mach,
                   analysis_request.conditions.alpha_range,
                   NCritOf(analysis_request.conditions), "xlarge", TRUE).results

\* C25: the outputs a single-airfoil /api/analyze request returns with
\* cached = True are those analyze_airfoil computes for that airfoil and those
\* conditions with model size "xlarge".
C25_CachedIsXlarge ==
    (/\ pc = "done" /\ http_status = 200
     /\ analysis_request.endpoint = "/api/analyze"
     /\ Len(analysis_request.airfoil_ids) = 1
     /\ response.cached)
    => response.results = XlargeOutputs

\* ------------------------------------------------------------------ C28
\* C28: performance_cache never holds two rows with the same
\* (airfoil_id, cond_hash).
C28_OneRowPerKey ==
    \A j, k \in DOMAIN performance_cache :
        (/\ performance_cache[j].airfoil_id = performance_cache[k].airfoil_id
         /\ performance_cache[j].cond_hash = performance_cache[k].cond_hash)
        => j = k

\* ------------------------------------------------------------------ C24
\* The x values of a surface neither all rise nor all fall strictly.
NotStrictlyMonotonic(surface) ==
    /\ \E i \in 1..(Len(surface) - 1) : surface[i][1] >= surface[i + 1][1]
    /\ \E i \in 1..(Len(surface) - 1) : surface[i][1] <= surface[i + 1][1]

\* One of the surfaces of the create request is empty, has more than
\* MAX_POINTS points or has x values that are not strictly monotonic.
BadSurface ==
    \E surface \in {analysis_request.upper_surface, analysis_request.lower_surface} :
        \/ surface = <<>>
        \/ Len(surface) > MAX_POINTS
        \/ NotStrictlyMonotonic(surface)

\* The name of the create request is the name of a stored airfoil.
NameExists == \E a \in airfoils : a.name = analysis_request.name

\* C24: when create_airfoil handles a request that fails validation (its name
\* exists and the name check is answered, a surface is empty, has more than
\* MAX_POINTS points or x values that are not strictly monotonic), or the
\* client is not configured, it answers success = False and table airfoils
\* is left as it was.
C24_ValidatesFirst ==
    [][(/\ pc = "create_airfoil"
        /\ \/ ~supabase
           \/ BadSurface
           \/ NameExists /\ "name check raised" \notin db_errors')
       => (response'.success = FALSE /\ airfoils' = airfoils)]_vars

\* C24 witness: a create request with good surfaces and an existing name was
\* refused for the name alone, nothing being stored.
C24_W_NameRefused ==
    /\ pc = "done" /\ supabase
    /\ analysis_request.endpoint = "/api/airfoils/create"
    /\ ~BadSurface /\ NameExists
    /\ response.success = FALSE /\ response.error = {"name exists"}
    /\ airfoils = StoredAirfoils

\* ------------------------------------------------------------------ C27
\* The distinct airfoil ids of the request served.
RequestedIds ==
    {analysis_request.airfoil_ids[j] : j \in DOMAIN analysis_request.airfoil_ids}

\* The outputs a multi-airfoil answer may hold for stored airfoil a: those
\* analyze_airfoil computes for it and the conditions with the default model
\* size, or those of a row stored under the hash of the conditions and its id.
OutputsFor(a) ==
    {AnalyzeAirfoil(a.upper_x_coordinates, a.upper_y_coordinates,
                    a.lower_x_coordinates, a.lower_y_coordinates,
                    analysis_request.conditions.Re, analysis_request.conditions.Mach,
                    analysis_request.conditions.alpha_range,
                    NCritOf(analysis_request.conditions), "xsmall", TRUE).results}
    \cup {performance_cache[k].outputs : k \in
            {j \in DOMAIN performance_cache :
                /\ performance_cache[j].airfoil_id = a.id
                /\ performance_cache[j].cond_hash =
                      GenerateConditionHash(analysis_request.conditions, a.id,
                                            None, None)}}

\* C27: a 200 answer to a multi-airfoil /api/analyze request has as many
\* results entries as the request has distinct airfoil ids, and for each of
\* these ids an entry with outputs of that airfoil, fresh or cached under the
\* hash of the request's conditions and that id.
C27_OneEntryPerId ==
    (/\ pc = "done" /\ http_status = 200
     /\ analysis_request.endpoint = "/api/analyze"
     /\ Len(analysis_request.airfoil_ids) > 1)
    => /\ Cardinality(DOMAIN response.results) = Cardinality(RequestedIds)
       /\ \A a \in airfoils :
             a.id \in RequestedIds =>
                 \E key \in DOMAIN response.results :
                     response.results[key] \in OutputsFor(a)

\* ---------------------------------------------------------------- C23
\* The request being served is a control-surface request whose flap
\* configurations all have deflection 0.
ZeroDeflectionPending ==
    /\ pc = "control_surface"
    /\ supabase
    /\ \A k \in DOMAIN analysis_request.flap_configs :
           IsZero(analysis_request.flap_configs[k].deflection)

\* performance_cache holds a row stored for the requested airfoil and
\* conditions by a flap configuration of the set fs.
CachedUnder(fs) ==
    \E k \in DOMAIN performance_cache : \E f \in fs :
        /\ performance_cache[k].airfoil_id = analysis_request.airfoil_id
        /\ performance_cache[k].cond_hash =
               FlapHash(analysis_request.conditions, analysis_request.airfoil_id, f)

\* The zero-deflection configurations, and those with the deflection value of
\* every configuration of the request.
ZeroConfigs == {f \in FlapConfigs : IsZero(f.deflection)}

SameDeflectionConfigs ==
    {f \in FlapConfigs :
        \A k \in DOMAIN analysis_request.flap_configs :
            f.deflection = analysis_request.flap_configs[k].deflection}

\* For non-zero deflection the hash depends on both hinge_point and deflection.
NonZeroHashDependsOnBoth ==
    \A c \in AnalysisConditions : \A id \in AirfoilIds :
        \A f \in FlapConfigs \ ZeroConfigs : \A g \in FlapConfigs :
            FlapHash(c, id, f) = FlapHash(c, id, g) => f = g

\* C23 as stated: every zero-deflection configuration maps to the same
\* cond_hash, so a zero-deflection request whose airfoil and conditions have a
\* row cached by any zero-deflection configuration, at whatever hinge point,
\* is served from the cache without a call of analyze_airfoil (the lookup not
\* failing); and for non-zero deflection the hash depends on both hinge_point
\* and deflection.
C23_ZeroDeflectionOneHash ==
    [][(ZeroDeflectionPending /\ CachedUnder(ZeroConfigs)
          /\ "cache select raised" \notin db_errors')
       => (analyze_airfoil_calls' = <<>> /\ NonZeroHashDependsOnBoth)]_vars

\* What holds of C23: the zero-deflection configurations with the same deflection
\* value, 0.0 or -0.0, map to the same cond_hash whatever their hinge points,
\* so a zero-deflection request whose airfoil and conditions have a row cached
\* at that deflection value under any hinge point is served from the cache
\* without a call of analyze_airfoil (the lookup not failing); and for
\* non-zero deflection the hash depends on both hinge_point and deflection.
C23_SameZeroOneHash ==
    [][(ZeroDeflectionPending /\ CachedUnder(SameDeflectionConfigs)
          /\ "cache select raised" \notin db_errors')
       => (analyze_airfoil_calls' = <<>> /\ NonZeroHashDependsOnBoth)]_vars

\* Witness: a request with deflection 0 at two hinge points was answered with
\* one call of analyze_airfoil, the second configuration served from the row
\* the first one stored.
C23_W_HitAcrossHinges ==
    /\ pc = "done"
    /\ analysis_request.endpoint = "/api/control-surface/analyze"
    /\ http_status = 200
    /\ Len(analysis_request.flap_configs) = 2
    /\ analysis_request.flap_configs[1].hinge_point
           # analysis_request.flap_configs[2].hinge_point
    /\ Len(response.results) = 2
    /\ Len(analyze_airfoil_calls) = 1
    /\ db_errors = {}

\* ---------------------------------------------------------------- C26
\* A control-surface request has been answered with results.
ControlSurfaceAnswered ==
    /\ pc = "done"
    /\ analysis_request.endpoint = "/api/control-surface/analyze"
    /\ http_status = 200

\* C26: the geometry returned for an airfoil and a flap configuration is the
\* one the cache-miss path computes, whether or not the performance data came
\* from the cache; at deflection 0 that is the stored upper and lower arrays.
C26_GeometrySameCachedOrFresh ==
    ControlSurfaceAnswered =>
        \A k \in DOMAIN response.results :
            \A a \in {b \in airfoils : b.id = analysis_request.airfoil_id} :
                response.results[k].geometry =
                    FreshGeometry(a, analysis_request.flap_configs[k])

\* ---------------------------------------------------------------- C22
\* The ids the analysis request names and the number of analyses it asks for.
AnalysisPending == pc \in {"analyze", "control_surface"}

RequestedAirfoilIds ==
    IF pc = "analyze"
    THEN {analysis_request.airfoil_ids[k] : k \in DOMAIN analysis_request.airfoil_ids}
    ELSE {analysis_request.airfoil_id}

RequestedAnalyses ==
    IF pc = "analyze" THEN Len(analysis_request.airfoil_ids)
    ELSE Len(analysis_request.flap_configs)

\* Among the exceptions errs: one of the performance_cache select or insert,
\* and one of anything else.
CacheFailure(errs) == errs \cap {"cache select raised", "cache insert raised"} # {}

OtherFailure(errs) ==
    errs \cap {"airfoils select raised", "analyze_airfoil raised",
               "deflect_trailing_edge_flap raised"} # {}

\* C22: an analysis request (single, multi or control-surface) for stored
\* airfoils during which the performance_cache select or insert raised, and
\* nothing else did, is answered 200 with results; when the select raised,
\* every requested analysis was run; when the insert raised, the results are
\* those of a fresh analysis and no row was stored.
C22_CacheFailuresSwallowed ==
    [][(/\ AnalysisPending
        /\ supabase
        /\ \A id \in RequestedAirfoilIds : \E a \in airfoils : a.id = id
        /\ CacheFailure(db_errors')
        /\ ~OtherFailure(db_errors'))
       => (/\ http_status' = 200
           /\ response' # NoResponse
           /\ "cache select raised" \in db_errors'
                  => Len(analyze_airfoil_calls') = RequestedAnalyses
           /\ "cache insert raised" \in db_errors'
                  => (/\ analyze_airfoil_calls' # <<>>
                      /\ performance_cache' = performance_cache))]_vars

\* Witness: a control-surface request answered 200 although both the cache
\* select and the cache insert raised.
C22_W_BothRaised ==
    /\ pc = "done"
    /\ analysis_request.endpoint = "/api/control-surface/analyze"
    /\ supabase
    /\ http_status = 200
    /\ db_errors = {"cache select raised", "cache insert raised"}
    /\ Len(analyze_airfoil_calls) = Len(analysis_request.flap_configs)

====
